---------------------------- MODULE Spec2Model ----------------------------
(***************************************************************************)
(* A model of the hashassin password-recovery toolkit:                     *)
(*   - the rainbow-chain engine (core/algorithms.rs, core/reduction.rs,    *)
(*     core/generate_rainbow_table.rs, core/crack.rs,                      *)
(*     server/crack_hashes.rs);                                            *)
(*   - the reader / worker / writer pipelines of the command line tools    *)
(*     (core/generate_rainbow_table.rs, core/generate_hashes.rs,           *)
(*     core/generate_passwords.rs, core/utils.rs);                         *)
(*   - the server's cache (server/cache_memory.rs);                        *)
(*   - the server's dispatcher and compute limiter (server/server.rs,      *)
(*     server/compute_threads.rs) on the tokio runtime that cli/main.rs    *)
(*     builds;                                                             *)
(*   - the local cracker's thread pool and output (core/crack.rs);         *)
(*   - the readers of the table and hash file formats                      *)
(*     (core/dump_rainbow_table.rs, core/dump_hashes.rs, core/crack.rs,    *)
(*     server/save_rainbow_table.rs) and the exit codes of cli/main.rs.    *)
(*   - the compute limiter and the cache's inserting operations under      *)
(*     threads that share them (server/compute_threads.rs,                 *)
(*     server/cache_memory.rs), and the server's crack() on a series of    *)
(*     requests (server/crack_hashes.rs).                                  *)
(* Strings and byte vectors are sequences of byte values.                  *)
(***************************************************************************)
EXTENDS Integers, Sequences, FiniteSets, TLC

VARIABLES
    \* ---- the chain engine: one chain built, then handed to a cracker
    chPc,        \* "off" | "build" | "built" | "cracked"
    chAlgo,      \* the algorithm of the table
    chStart,     \* the start password of the chain
    chLinks,     \* num_links
    chRound,     \* create_chain's loop variable `round`
    chPwd,       \* create_chain's `password`
    chTrail,     \* the passwords create_chain has hashed so far, in order
    chEnd,       \* the endpoint written in the chain record
    chTarget,    \* the index in chTrail of the password whose hash is cracked
    chCracker,   \* "none" | "local" | "server"
    chFound,     \* the cracker's `found` map, as a function hash_hex -> password
    \* ---- the server's Cache, its operations called one after the other
    algorithms,          \* Cache.algorithms: algorithm -> AlgorithmCache
    max_cache_size,      \* Cache.max_cache_size
    current_cache_size,  \* Cache.current_cache_size
    cacheCall,           \* the last operation called on the cache, with its arguments
    cacheRet,            \* what that operation returned
    \* ---- one run of a command line tool's reader / worker / writer pipeline
    plResult,        \* "off" | "call" | "run", then what the tool's function returned
    plTool,          \* "off" | "gen_rainbow_table" | "gen_hashes" | "gen_passwords"
    plThreads,       \* the --threads argument
    plNum,           \* gen_passwords: the --num argument
    plAlgo,          \* the --algorithm argument
    plLinks,         \* gen_rainbow_table: num_links
    plInput,         \* the lines of the input file
    plWorkers,       \* how many worker threads were spawned
    plReaderPc,      \* "run" | "done": the reader function and the senders it owns
    plLine,          \* the line the reader's loop is at
    plSent,          \* how many of that line's sends the reader has done
    first_iteration, \* the reader's flag of that name
    passwordChannel, \* tx_password -> rx_password (tx_encrpyter -> rx_encrpyter)
    printerChannel,  \* tx_printer -> rx_printer
    plWorkerPc,      \* per worker: "recv" | "send" | "gen" | "done" | "panicked"
    plWorkerItem,    \* per worker: the password it has received
    plWorkerLeft,    \* per generator: iterations of its loop still to run
    plWriterPc,      \* "run" | "done"; "none" before the output file is created
    plFile,          \* the writes made to the output, in order
    plDump,          \* what the readers of the format make of the output
    plJoined,        \* how many of `handles` the main thread has joined
    \* ---- the server: limiter, connections and the tokio runtime's workers
    compute_threads, \* CrackLimiter.max
    async_threads,   \* worker_threads of the runtime
    count,           \* CrackLimiter.count
    connKind,        \* per client: the magic word of the request it sends
    connAlgo,        \* per client: the algorithm its payload names
    connPc,          \* per client: where its handle_client task is
    connNet,         \* per client: how many parts of its request have arrived
    connEnded,       \* per client: "open" | "eof" | "reset", the client's side
    connInserted,    \* per upload: its num_inserted
    connReply,       \* per crack: the result of crack()
    connResult,      \* per client: what handle_client returned, "" before
    connOut,         \* per client: the responses written to its stream
    cacheLock,       \* the task that holds the Mutex<Cache>, 0 if free
    cacheWaiters,    \* the tasks queued on the Mutex<Cache>
    serverResult,    \* <<>> while start_server runs, then what ended it
    worker,          \* the tasks the runtime's worker threads are polling
    runnable,        \* the tasks woken and waiting for a worker
    \* ---- one run of the local cracker, or one crack() of the server
    ckPc,        \* "off" | "pool" | "collect" | "emit" | "server" | "store" | "done"
    ckArgs,      \* the table loaded, the hashes to crack in file order, --threads
    ckTodo,      \* per chain: the map insertions its closure has still to make
    ckActive,    \* the chains the pool's threads are working on
    ckFound,     \* `found`: the (hash, password) entries in insertion order
    ckFile,      \* the output: whether File::create was called, and the lines
    ckLine,      \* the output loop's position in hashes_to_crack
    ckResult,    \* "" while the cracker runs, then what it returned
    \* ---- one call of a function of the toolkit
    callOp,      \* the function called, "none" before the call
    callArgs,    \* its arguments
    callRet,     \* what it returned
    \* ---- OS threads calling into one CrackLimiter
    limMax,      \* CrackLimiter.max
    limCounter,  \* CrackLimiter.counter, the value in the Mutex
    limCvar,     \* the threads blocked in CrackLimiter.cvar.wait
    limPc,       \* per thread: where it is in acquire() / release()
    \* ---- OS threads calling into one shared Cache
    thPc,        \* per thread: where it is in the Cache method it runs
    thArgs,      \* per thread: the arguments of the method
    thTodo       \* per thread: the calls it has still to make

chainVars == <<chPc, chAlgo, chStart, chLinks, chRound, chPwd, chTrail, chEnd,
               chTarget, chCracker, chFound>>

cacheVars == <<algorithms, max_cache_size, current_cache_size, cacheCall, cacheRet>>

pipeVars == <<plResult, plTool, plThreads, plNum, plAlgo, plLinks, plInput, plWorkers,
              plReaderPc, plLine, plSent, first_iteration, passwordChannel,
              printerChannel, plWorkerPc, plWorkerItem, plWorkerLeft, plWriterPc,
              plFile, plJoined, plDump>>

serverVars == <<compute_threads, async_threads, count, connKind, connAlgo, connPc,
                connNet, connEnded, connInserted, connReply, connResult, connOut,
                cacheLock, cacheWaiters, serverResult, worker, runnable>>

crackVars == <<ckPc, ckArgs, ckTodo, ckActive, ckFound, ckFile, ckLine, ckResult>>

callVars == <<callOp, callArgs, callRet>>

threadVars == <<limMax, limCounter, limCvar, limPc, thPc, thArgs, thTodo>>

vars == <<chainVars, cacheVars, pipeVars, serverVars, crackVars, callVars, threadVars>>

----------------------------------------------------------------------------
(* Bounds of the model.                                                    *)

\* The longest chain built (num_links ranges over 1..MaxLinks).
MaxLinks == 3
\* The largest max_cache_size a Cache is created with.
MaxCacheSize == 4
\* The number of chains the cache operations insert in all.
MaxChains == 2

\* The most worker threads a tool is run with.
MaxThreads == 3

\* The most lines of an input file.
MaxInput == 2

\* The most passwords gen-passwords is asked for.
MaxNum == 3

\* The most connections the server is given.
MaxClients == 2

\* The largest --compute-threads.
MaxComputeThreads == 1

\* The largest --async-threads.
MaxAsyncThreads == 2

\* The most chains of a table given to a cracker.
MaxTableChains == 2

\* The most hashes of a hash file given to a cracker.
MaxHashes == 2

\* The most threads of the local cracker's pool.
MaxCrackThreads == 2

\* The most OS threads that call into the CrackLimiter.
MaxLimThreads == 3

\* The largest CrackLimiter.max.
MaxPermits == 2

\* The most threads that call into one shared Cache.
MaxSharedThreads == 2

\* The most records of one of their uploads.
MaxUploadChains == 2

----------------------------------------------------------------------------
(* Program constants.                                                      *)

\* Radix::new(95): the size of the printable ASCII charset.
CharsetSize == 95
\* The code of the first charset character, ' '.
AsciiOffset == 32
\* start_server: max_cache_size when --cache-size is not given, i32::MAX.
DefaultCacheSize == 2147483647

\* charset: Vec<u8> = (32..=126).collect()
Charset == [i \in 1..CharsetSize |-> AsciiOffset + i - 1]

----------------------------------------------------------------------------
(* Arithmetic and sequence helpers.                                        *)

RECURSIVE Pow(_, _)
Pow(b, e) == IF e = 0 THEN 1 ELSE b * Pow(b, e - 1)

\* The empty HashMap.
EmptyMap == [x \in {} |-> x]

\* HashMap::entry(k).or_insert(v)
OrInsert(m, k, v) == IF k \in DOMAIN m THEN m ELSE m @@ (k :> v)

----------------------------------------------------------------------------
(* Each specification below runs one part of the program; the state of the *)
(* parts it does not run stays as follows.                                 *)

NoCall == [op |-> "none"]

ChainOff ==
    /\ chPc = "off" /\ chAlgo = "md5" /\ chStart = <<>> /\ chLinks = 0
    /\ chRound = 0 /\ chPwd = <<>> /\ chTrail = <<>> /\ chEnd = <<>>
    /\ chTarget = 0 /\ chCracker = "none" /\ chFound = EmptyMap

CacheOff ==
    /\ algorithms = EmptyMap /\ max_cache_size = 0 /\ current_cache_size = 0
    /\ cacheCall = NoCall /\ cacheRet = [ok |-> TRUE]

PipeOff ==
    /\ plResult = "off"
    /\ plTool = "off" /\ plThreads = 0 /\ plNum = 0 /\ plAlgo = "md5"
    /\ plLinks = 0 /\ plInput = <<>> /\ plWorkers = 0 /\ plReaderPc = "done"
    /\ plLine = 1 /\ plSent = 0 /\ first_iteration = TRUE
    /\ passwordChannel = <<>> /\ printerChannel = <<>>
    /\ plWorkerPc = <<>> /\ plWorkerItem = <<>> /\ plWorkerLeft = <<>>
    /\ plWriterPc = "done" /\ plFile = <<>> /\ plJoined = 0 /\ plDump = <<>>

CrackOff ==
    /\ ckPc = "off" /\ ckArgs = <<>> /\ ckTodo = <<>> /\ ckActive = {}
    /\ ckFound = <<>> /\ ckFile = <<>> /\ ckLine = 1 /\ ckResult = ""

CallOff == callOp = "off" /\ callArgs = <<>> /\ callRet = <<>>

ThreadsOff ==
    /\ limMax = 0 /\ limCounter = 0 /\ limCvar = {} /\ limPc = <<>>
    /\ thPc = <<>> /\ thArgs = <<>> /\ thTodo = <<>>

ServerOff ==
    /\ compute_threads = 0 /\ async_threads = 0 /\ count = 0
    /\ connKind = <<>> /\ connAlgo = <<>> /\ connPc = <<>> /\ connNet = <<>>
    /\ connEnded = <<>> /\ connInserted = <<>> /\ connReply = <<>>
    /\ connResult = <<>> /\ connOut = <<>>
    /\ cacheLock = 0 /\ cacheWaiters = {} /\ serverResult = <<>>
    /\ worker = {} /\ runnable = {}

----------------------------------------------------------------------------
(* Hash primitives.  md5, sha2 and sha3 are library functions; each is     *)
(* modelled as a fixed deterministic mixing function of the password       *)
(* bytes.  Digest widths are scaled down (md5 2 bytes, sha256 and sha3_512 *)
(* 3 bytes, for 16, 32 and 64) so that the digest read as an integer fits  *)
(* the model checker's integers.                                           *)

ChainAlgorithms == {"md5", "sha256", "sha3_512"}

DigestLen(algo) == CASE algo = "md5" -> 2
                     [] algo = "sha256" -> 3
                     [] algo = "sha3_512" -> 3

Seed(algo) == CASE algo = "md5" -> 5381
                [] algo = "sha256" -> 40503
                [] algo = "sha3_512" -> 7919

RECURSIVE Mix(_, _, _)
Mix(h, bytes, m) ==
    IF bytes = <<>> THEN h
    ELSE Mix((h * 33 + Head(bytes) * 7 + Len(bytes)) % m, Tail(bytes), m)

\* The little-endian bytes of n, `len` of them.
RECURSIVE ToLittleEndian(_, _)
ToLittleEndian(n, len) ==
    IF len = 0 THEN <<>> ELSE <<n % 256>> \o ToLittleEndian(n \div 256, len - 1)

\* hash_with_algorithm(password, algo): generate_md5_hash, generate_sha256_hash,
\* generate_sha3_512_hash.
hash_with_algorithm(password, algo) ==
    LET m == Pow(256, DigestLen(algo))
    IN  ToLittleEndian(Mix(Seed(algo), password, m), DigestLen(algo))

\* hex::encode: two lowercase hexadecimal digits per byte, as ASCII codes.
HexDigit(d) == IF d < 10 THEN 48 + d ELSE 97 + (d - 10)

RECURSIVE hex_encode(_)
hex_encode(bytes) ==
    IF bytes = <<>> THEN <<>>
    ELSE <<HexDigit(Head(bytes) \div 16), HexDigit(Head(bytes) % 16)>>
         \o hex_encode(Tail(bytes))

----------------------------------------------------------------------------
(* The two reductions.                                                     *)

\* U512::from_little_endian(&hash)
RECURSIVE from_little_endian(_)
from_little_endian(bytes) ==
    IF bytes = <<>> THEN 0 ELSE Head(bytes) + 256 * from_little_endian(Tail(bytes))

\* algorithms::encode: the base-95 digits of num, least significant first, each
\* plus 32, then padded with ' ' up to `length`.
RECURSIVE EncodeDigits(_)
EncodeDigits(num) ==
    IF num > 0
    THEN <<(num % CharsetSize) + AsciiOffset>> \o EncodeDigits(num \div CharsetSize)
    ELSE <<>>

encode(num, length) ==
    LET s == EncodeDigits(num)
    IN  IF Len(s) < length
        THEN s \o [i \in 1..(length - Len(s)) |-> AsciiOffset]
        ELSE s

\* A u128 is kept as its 16 little-endian bytes, so that 95^P keeps its width.
U128Bytes == 16

\* The u128 of an n below 2^24.
u128_from(n) ==
    [k \in 1..U128Bytes |-> IF k <= 3 THEN (n \div Pow(256, k - 1)) % 256 ELSE 0]

\* limbs * m + carry, as the low 16 bytes and the carry out of them.
RECURSIVE MulSmall(_, _, _)
MulSmall(limbs, m, carry) ==
    IF limbs = <<>>
    THEN [value |-> <<>>, carry |-> carry]
    ELSE LET t == Head(limbs) * m + carry
             rest == MulSmall(Tail(limbs), m, t \div 256)
         IN  [value |-> <<t % 256>> \o rest.value, carry |-> rest.carry]

\* u128::pow(base, exp): the wrapped power, and whether the product left the
\* 128 bits (a debug build panics there, a release build wraps).  The factors
\* are taken three at a time; the products only grow, so one of them leaves
\* the 128 bits exactly when base^exp does.
RECURSIVE pow(_, _)
pow(base, exp) ==
    IF exp < 3
    THEN [value |-> u128_from(Pow(base, exp)), overflow |-> FALSE]
    ELSE LET p == pow(base, exp - 3)
             m == MulSmall(p.value, Pow(base, 3), 0)
         IN  [value |-> m.value, overflow |-> p.overflow \/ m.carry > 0]

\* i % mod_by for an i below 2^31: a modulus of 2^31 or more leaves i alone.
Rem(i, mod_by) ==
    IF (\A k \in 5..U128Bytes : mod_by[k] = 0) /\ mod_by[4] < 128
    THEN i % from_little_endian(SubSeq(mod_by, 1, 4))
    ELSE i

\* algorithms::reduction_function, the reduction of the table builder, as a
\* build without overflow checks computes it.
reduction_function(hash, round, password_length) ==
    LET i == from_little_endian(hash) + round
        mod_by == pow(CharsetSize, password_length).value
    IN  encode(Rem(i, mod_by), password_length)

\* The build profiles of cargo: "debug" checks integer overflow and panics,
\* "release" wraps.
Builds == {"debug", "release"}

\* A call of reduction_function in the given build.
reduction_function_call(build, hash, round, password_length) ==
    IF build = "debug" /\ pow(CharsetSize, password_length).overflow
    THEN [panic |-> TRUE, value |-> <<>>]
    ELSE [panic |-> FALSE, value |-> reduction_function(hash, round, password_length)]

\* reduction::reduce, the reduction of the local and the server cracker:
\* charset[hash_bytes[i % hash_bytes.len()] % charset_len] for i in 0..password_len,
\* where hash is the hexadecimal text of the digest.
reduce(hash, password_len, charset) ==
    [i \in 1..password_len |->
        charset[(hash[((i - 1) % Len(hash)) + 1] % Len(charset)) + 1]]

----------------------------------------------------------------------------
(* The chain engine of the builder.                                        *)

\* One iteration of create_chain's loop.
ChainStep(algo, password, round) ==
    reduction_function(hash_with_algorithm(password, algo), round, Len(password))

\* create_chain(password, num_links, hash_func): rounds 0..num_links-1.
RECURSIVE CreateChainFrom(_, _, _, _)
CreateChainFrom(algo, password, round, num_links) ==
    IF round >= num_links THEN password
    ELSE CreateChainFrom(algo, ChainStep(algo, password, round), round + 1, num_links)

create_chain(algo, password, num_links) == CreateChainFrom(algo, password, 0, num_links)

\* The same walk with the crackers' reduction in place of the builder's:
\* hash then reduce, num_links times.
RECURSIVE ReplayWithReduce(_, _, _)
ReplayWithReduce(algo, password, num_links) ==
    IF num_links = 0 THEN password
    ELSE ReplayWithReduce(
            algo,
            reduce(hex_encode(hash_with_algorithm(password, algo)), Len(password), Charset),
            num_links - 1)

----------------------------------------------------------------------------
(* The crackers.  A chain is a record [start, end].                        *)

\* server crack_passwords, the forward simulation of one chain: the walk stops
\* (break) at the first candidate whose hash is wanted.
RECURSIVE ServerForward(_, _, _, _, _, _)
ServerForward(found, candidate, steps, hash_set, algo, password_len) ==
    IF steps = 0 THEN found
    ELSE LET hash_hex == hex_encode(hash_with_algorithm(candidate, algo))
         IN  IF hash_hex \in hash_set
             THEN OrInsert(found, hash_hex, candidate)
             ELSE ServerForward(found, reduce(hash_hex, password_len, Charset),
                                steps - 1, hash_set, algo, password_len)

\* The chains of one num_links bucket, in order.
RECURSIVE ServerBucket(_, _, _, _, _, _)
ServerBucket(found, chains, num_links, hash_set, algo, password_len) ==
    IF chains = <<>> THEN found
    ELSE ServerBucket(
            ServerForward(found, Head(chains).start, num_links, hash_set, algo, password_len),
            Tail(chains), num_links, hash_set, algo, password_len)

\* The buckets in the order the HashMap iterates them: a sequence of
\* [num_links, chains].
RECURSIVE ServerBuckets(_, _, _, _, _)
ServerBuckets(found, buckets, hash_set, algo, password_len) ==
    IF buckets = <<>> THEN found
    ELSE ServerBuckets(
            ServerBucket(found, Head(buckets).chains, Head(buckets).num_links,
                         hash_set, algo, password_len),
            Tail(buckets), hash_set, algo, password_len)

\* server crack_passwords: Err(NoPasswordsFound) when found is empty.
server_crack_passwords(buckets, hashes_to_crack, algo, password_len) ==
    LET hash_set == {hashes_to_crack[i] : i \in DOMAIN hashes_to_crack}
        found == ServerBuckets(EmptyMap, buckets, hash_set, algo, password_len)
    IN  IF DOMAIN found = {}
        THEN [ok |-> FALSE, err |-> "NoPasswordsFound", found |-> EmptyMap]
        ELSE [ok |-> TRUE, err |-> "", found |-> found]

\* core crack_passwords, the forward simulation of one chain: every candidate
\* is tested, the walk does not stop at a match.
RECURSIVE LocalForward(_, _, _, _, _, _)
LocalForward(found, candidate, steps, hash_set, algo, password_len) ==
    IF steps = 0 THEN found
    ELSE LET hash_hex == hex_encode(hash_with_algorithm(candidate, algo))
             found1 == IF hash_hex \in hash_set
                       THEN OrInsert(found, hash_hex, candidate)
                       ELSE found
         IN  LocalForward(found1, reduce(hash_hex, password_len, Charset),
                          steps - 1, hash_set, algo, password_len)

\* for i in (0..num_links).rev(): the walk from chain.start is repeated for
\* every i (the password reduced from chain.end is not used).
RECURSIVE LocalChain(_, _, _, _, _, _, _)
LocalChain(found, chain, i, num_links, hash_set, algo, password_len) ==
    IF i = 0 THEN found
    ELSE LocalChain(
            LocalForward(found, chain.start, num_links, hash_set, algo, password_len),
            chain, i - 1, num_links, hash_set, algo, password_len)

\* The chains in the order the thread pool takes them.
RECURSIVE LocalChains(_, _, _, _, _, _)
LocalChains(found, chains, num_links, hash_set, algo, password_len) ==
    IF chains = <<>> THEN found
    ELSE LocalChains(
            LocalChain(found, Head(chains), num_links, num_links, hash_set, algo, password_len),
            Tail(chains), num_links, hash_set, algo, password_len)

\* core crack_passwords: Err("No passwords found.") when the map is empty.
crack_passwords(chains, num_links, hashes_to_crack, algo, password_len) ==
    LET hash_set == {hashes_to_crack[i] : i \in DOMAIN hashes_to_crack}
        found == LocalChains(EmptyMap, chains, num_links, hash_set, algo, password_len)
    IN  IF DOMAIN found = {}
        THEN [ok |-> FALSE, err |-> "No passwords found.", found |-> EmptyMap]
        ELSE [ok |-> TRUE, err |-> "", found |-> found]

----------------------------------------------------------------------------
(* The server's cache.  A Cache value is a record [algorithms,             *)
(* max_cache_size, current_cache_size]; algorithms maps each algorithm     *)
(* present to its AlgorithmCache [password_len, cracked_passwords], where  *)
(* password_len maps a length to its RainbowTable (num_links -> sequence   *)
(* of chains) and cracked_passwords maps a hash to its CrackedPassword.    *)

\* AlgorithmCache { password_len: DashMap::new(), cracked_passwords: DashMap::new() }
NewAlgorithmCache == [password_len |-> EmptyMap, cracked_passwords |-> EmptyMap]

\* Cache::new_with_size
new_with_size(max) ==
    [algorithms |-> EmptyMap, max_cache_size |-> max, current_cache_size |-> 0]

\* m with key k set to v (k added when missing).
Put(m, k, v) == [x \in DOMAIN m \cup {k} |-> IF x = k THEN v ELSE m[x]]

\* self.algorithms.entry(algorithm).or_insert_with(AlgorithmCache::new)
WithAlgorithm(algos, algorithm) ==
    IF algorithm \in DOMAIN algos THEN algos ELSE Put(algos, algorithm, NewAlgorithmCache)

\* Cache::insert_chain, with the new chain put in front of the bucket.
insert_chain_prepending(self, algorithm, password_len, num_links, chain) ==
    LET algos == WithAlgorithm(self.algorithms, algorithm)
        algo_cache == algos[algorithm]
        tables == IF password_len \in DOMAIN algo_cache.password_len
                  THEN algo_cache.password_len
                  ELSE Put(algo_cache.password_len, password_len, EmptyMap)
        rainbow_table == tables[password_len]
        bucket == IF num_links \in DOMAIN rainbow_table
                  THEN <<chain>> \o rainbow_table[num_links]
                  ELSE <<chain>>
    IN  [self EXCEPT !.algorithms =
            Put(algos, algorithm,
                [algo_cache EXCEPT !.password_len =
                    Put(tables, password_len, Put(rainbow_table, num_links, bucket))])]

\* Cache::insert_chain, with the chain's bytes added to the counted size.
insert_chain_counted(self, algorithm, password_len, num_links, chain) ==
    LET algos == WithAlgorithm(self.algorithms, algorithm)
        algo_cache == algos[algorithm]
        tables == IF password_len \in DOMAIN algo_cache.password_len
                  THEN algo_cache.password_len
                  ELSE Put(algo_cache.password_len, password_len, EmptyMap)
        rainbow_table == tables[password_len]
        bucket == IF num_links \in DOMAIN rainbow_table
                  THEN Append(rainbow_table[num_links], chain)
                  ELSE <<chain>>
    IN  [self EXCEPT
            !.algorithms =
                Put(algos, algorithm,
                    [algo_cache EXCEPT !.password_len =
                        Put(tables, password_len, Put(rainbow_table, num_links, bucket))]),
            !.current_cache_size = @ + Len(chain.start_chain) + Len(chain.end_chain)]

\* Cache::insert_chain
insert_chain(self, algorithm, password_len, num_links, chain) ==
    LET algos == WithAlgorithm(self.algorithms, algorithm)
        algo_cache == algos[algorithm]
        tables == IF password_len \in DOMAIN algo_cache.password_len
                  THEN algo_cache.password_len
                  ELSE Put(algo_cache.password_len, password_len, EmptyMap)
        rainbow_table == tables[password_len]
        bucket == IF num_links \in DOMAIN rainbow_table
                  THEN Append(rainbow_table[num_links], chain)
                  ELSE <<chain>>
    IN  [self EXCEPT !.algorithms =
            Put(algos, algorithm,
                [algo_cache EXCEPT !.password_len =
                    Put(tables, password_len, Put(rainbow_table, num_links, bucket))])]

\* Cache::get_all_chains, answering an absent length with an empty map.
get_all_chains_empty_ok(self, algorithm, password_len) ==
    IF algorithm \notin DOMAIN self.algorithms
    THEN [ok |-> FALSE, err |-> "NoRainbowTableFound", value |-> EmptyMap]
    ELSE IF password_len \notin DOMAIN self.algorithms[algorithm].password_len
    THEN [ok |-> TRUE, err |-> "", value |-> EmptyMap]
    ELSE LET chain_map == self.algorithms[algorithm].password_len[password_len]
         IN  IF DOMAIN chain_map = {}
             THEN [ok |-> FALSE, err |-> "NoRainbowTableFound", value |-> EmptyMap]
             ELSE [ok |-> TRUE, err |-> "", value |-> chain_map]

\* Cache::get_all_chains
get_all_chains(self, algorithm, password_len) ==
    IF algorithm \notin DOMAIN self.algorithms
    THEN [ok |-> FALSE, err |-> "NoRainbowTableFound", value |-> EmptyMap]
    ELSE IF password_len \notin DOMAIN self.algorithms[algorithm].password_len
    THEN [ok |-> FALSE, err |-> "NoRainbowTableFound", value |-> EmptyMap]
    ELSE LET chain_map == self.algorithms[algorithm].password_len[password_len]
         IN  IF DOMAIN chain_map = {}
             THEN [ok |-> FALSE, err |-> "NoRainbowTableFound", value |-> EmptyMap]
             ELSE [ok |-> TRUE, err |-> "", value |-> chain_map]

\* Cache::insert_cracked_password, with the admission check left out.
insert_cracked_password_unchecked(self, algorithm, password) ==
    LET size_estimate == Len(password.hash) + Len(password.password)
        algos == WithAlgorithm(self.algorithms, algorithm)
        cracked == algos[algorithm].cracked_passwords
    IN  IF password.hash \in DOMAIN cracked
        THEN [self EXCEPT !.algorithms = algos]
        ELSE [self EXCEPT
                !.algorithms = Put(algos, algorithm,
                    [algos[algorithm] EXCEPT
                        !.cracked_passwords = Put(cracked, password.hash, password)]),
                !.current_cache_size = @ + size_estimate]

\* Cache::insert_cracked_password, with insert in place of or_insert_with.
insert_cracked_password_overwriting(self, algorithm, password) ==
    LET size_estimate == Len(password.hash) + Len(password.password)
        algos == WithAlgorithm(self.algorithms, algorithm)
        cracked == algos[algorithm].cracked_passwords
    IN  IF self.current_cache_size + size_estimate > self.max_cache_size
        THEN self
        ELSE [self EXCEPT
                !.algorithms = Put(algos, algorithm,
                    [algos[algorithm] EXCEPT
                        !.cracked_passwords = Put(cracked, password.hash, password)]),
                !.current_cache_size =
                    IF password.hash \in DOMAIN cracked THEN @ ELSE @ + size_estimate]

\* Cache::insert_cracked_password, with `>=` in the admission check.
insert_cracked_password_strict(self, algorithm, password) ==
    LET size_estimate == Len(password.hash) + Len(password.password)
        algos == WithAlgorithm(self.algorithms, algorithm)
        cracked == algos[algorithm].cracked_passwords
    IN  IF self.current_cache_size + size_estimate >= self.max_cache_size
        THEN self
        ELSE IF password.hash \in DOMAIN cracked
        THEN [self EXCEPT !.algorithms = algos]
        ELSE [self EXCEPT
                !.algorithms = Put(algos, algorithm,
                    [algos[algorithm] EXCEPT
                        !.cracked_passwords = Put(cracked, password.hash, password)]),
                !.current_cache_size = @ + size_estimate]

\* Cache::insert_cracked_password
insert_cracked_password(self, algorithm, password) ==
    LET size_estimate == Len(password.hash) + Len(password.password)
        algos == WithAlgorithm(self.algorithms, algorithm)
        cracked == algos[algorithm].cracked_passwords
    IN  IF self.current_cache_size + size_estimate > self.max_cache_size
        THEN self
        ELSE IF password.hash \in DOMAIN cracked
        THEN [self EXCEPT !.algorithms = algos]
        ELSE [self EXCEPT
                !.algorithms = Put(algos, algorithm,
                    [algos[algorithm] EXCEPT
                        !.cracked_passwords = Put(cracked, password.hash, password)]),
                !.current_cache_size = @ + size_estimate]

\* Cache::get_cracked_password, reporting an absent algorithm as an absent hash.
get_cracked_password_one_error(self, algorithm, hash) ==
    IF algorithm \notin DOMAIN self.algorithms
    THEN [ok |-> FALSE, err |-> "PasswordNotFoundInCache", value |-> <<>>]
    ELSE IF hash \notin DOMAIN self.algorithms[algorithm].cracked_passwords
    THEN [ok |-> FALSE, err |-> "PasswordNotFoundInCache", value |-> <<>>]
    ELSE [ok |-> TRUE, err |-> "",
          value |-> self.algorithms[algorithm].cracked_passwords[hash]]

\* Cache::get_cracked_password
get_cracked_password(self, algorithm, hash) ==
    IF algorithm \notin DOMAIN self.algorithms
    THEN [ok |-> FALSE, err |-> "InvalidAlgorithm", value |-> <<>>]
    ELSE IF hash \notin DOMAIN self.algorithms[algorithm].cracked_passwords
    THEN [ok |-> FALSE, err |-> "PasswordNotFoundInCache", value |-> <<>>]
    ELSE [ok |-> TRUE, err |-> "",
          value |-> self.algorithms[algorithm].cracked_passwords[hash]]

----------------------------------------------------------------------------
(* The cache as a state machine: a Cache is created with some              *)
(* max_cache_size and its four operations are called one after the other   *)
(* (the server calls them under the lock of its Mutex<Cache>).             *)

\* The arguments the operations are called with: algorithm names, hash
\* texts "0" and "1f", plaintexts "a" and "b"; every chain uploaded is a
\* different one.
CacheAlgorithms == {"md5", "sha256"}
HashPool == {<<48>>, <<49, 102>>}
PlainPool == {<<97>>, <<98>>}
\* The k-th chain uploaded: "a" -> "z", "b" -> "y", ...
UploadedChain(k) == [start_chain |-> <<96 + k>>, end_chain |-> <<123 - k>>]
ChainPool == {UploadedChain(k) : k \in 1..MaxChains}
LenPool == {1, 2}
LinksPool == {1, 2}

\* The (password_len, num_links) of the tables uploaded.
TablePool == {<<1, 1>>, <<1, 2>>, <<2, 1>>}

Self == [algorithms |-> algorithms, max_cache_size |-> max_cache_size,
         current_cache_size |-> current_cache_size]

\* The chains stored in all buckets.
RECURSIVE SumOver(_, _)
SumOver(S, f) ==
    IF S = {} THEN 0
    ELSE LET x == CHOOSE y \in S : TRUE IN f[x] + SumOver(S \ {x}, f)

ChainsStored(algos) ==
    LET Keys == {<<a, p, l>> \in (DOMAIN algos) \X LenPool \X LinksPool :
                    /\ p \in DOMAIN algos[a].password_len
                    /\ l \in DOMAIN algos[a].password_len[p]}
    IN  SumOver(Keys, [k \in Keys |-> Len(algos[k[1]].password_len[k[2]][k[3]])])

CacheInit ==
    /\ ChainOff /\ PipeOff /\ ServerOff /\ CrackOff /\ CallOff /\ ThreadsOff
    /\ max_cache_size \in 0..MaxCacheSize
    /\ algorithms = new_with_size(max_cache_size).algorithms
    /\ current_cache_size = new_with_size(max_cache_size).current_cache_size
    /\ cacheCall = NoCall
    /\ cacheRet = [ok |-> TRUE]

InsertChain(a, p, l, c) ==
    /\ ChainsStored(algorithms) < MaxChains
    /\ c = UploadedChain(ChainsStored(algorithms) + 1)
    /\ LET self == insert_chain(Self, a, p, l, c)
       IN  /\ algorithms' = self.algorithms
           /\ current_cache_size' = self.current_cache_size
    /\ cacheCall' = [op |-> "insert_chain", algorithm |-> a, password_len |-> p,
                     num_links |-> l, chain |-> c]
    /\ cacheRet' = [ok |-> TRUE]
    /\ UNCHANGED max_cache_size
    /\ UNCHANGED <<threadVars, crackVars, callVars, chainVars, pipeVars, serverVars>>

GetAllChains(a, p) ==
    /\ cacheCall' = [op |-> "get_all_chains", algorithm |-> a, password_len |-> p]
    /\ cacheRet' = get_all_chains(Self, a, p)
    /\ UNCHANGED <<algorithms, max_cache_size, current_cache_size>>
    /\ UNCHANGED <<threadVars, crackVars, callVars, chainVars, pipeVars, serverVars>>

InsertCrackedPassword(a, h, pw) ==
    /\ LET self == insert_cracked_password(Self, a, [hash |-> h, password |-> pw])
       IN  /\ algorithms' = self.algorithms
           /\ current_cache_size' = self.current_cache_size
    /\ cacheCall' = [op |-> "insert_cracked_password", algorithm |-> a, hash |-> h,
                     password |-> pw]
    /\ cacheRet' = [ok |-> TRUE]
    /\ UNCHANGED max_cache_size
    /\ UNCHANGED <<threadVars, crackVars, callVars, chainVars, pipeVars, serverVars>>

GetCrackedPassword(a, h) ==
    /\ cacheCall' = [op |-> "get_cracked_password", algorithm |-> a, hash |-> h]
    /\ cacheRet' = get_cracked_password(Self, a, h)
    /\ UNCHANGED <<algorithms, max_cache_size, current_cache_size>>
    /\ UNCHANGED <<threadVars, crackVars, callVars, chainVars, pipeVars, serverVars>>

CacheNext ==
    \/ \E a \in CacheAlgorithms, t \in TablePool, c \in ChainPool :
          InsertChain(a, t[1], t[2], c)
    \/ \E a \in CacheAlgorithms, p \in LenPool : GetAllChains(a, p)
    \/ \E a \in CacheAlgorithms, h \in HashPool, pw \in PlainPool :
          InsertCrackedPassword(a, h, pw)
    \/ \E a \in CacheAlgorithms, h \in HashPool : GetCrackedPassword(a, h)

CacheSpec == CacheInit /\ [][CacheNext]_vars

----------------------------------------------------------------------------
(* The chain engine as a state machine: the builder builds one chain from  *)
(* a start password, round by round; the table of that one chain is then   *)
(* handed to a cracker with the hash of one password of the chain.         *)

\* The start passwords tried: "abcd", "pass", "zz", "a~".
StartPool == {<<97, 98, 99, 100>>, <<112, 97, 115, 115>>, <<122, 122>>, <<97, 126>>}

ChainInit ==
    /\ CacheOff /\ PipeOff /\ ServerOff /\ CrackOff /\ CallOff /\ ThreadsOff
    /\ chPc = "build"
    /\ chAlgo \in ChainAlgorithms
    /\ chStart \in StartPool
    /\ chLinks \in 1..MaxLinks
    /\ chRound = 0
    /\ chPwd = chStart
    /\ chTrail = <<>>
    /\ chEnd = <<>>
    /\ chTarget = 0
    /\ chCracker = "none"
    /\ chFound = EmptyMap

\* create_chain: one round of the loop.
BuildRound ==
    /\ chPc = "build"
    /\ chRound < chLinks
    /\ chTrail' = Append(chTrail, chPwd)
    /\ chPwd' = ChainStep(chAlgo, chPwd, chRound)
    /\ chRound' = chRound + 1
    /\ UNCHANGED <<chPc, chAlgo, chStart, chLinks, chEnd, chTarget, chCracker, chFound>>
    /\ UNCHANGED <<threadVars, crackVars, callVars, cacheVars, pipeVars, serverVars>>

\* create_chain returns; generate_rainbow_chain concatenates start and end.
BuildFinish ==
    /\ chPc = "build"
    /\ chRound >= chLinks
    /\ chEnd' = chPwd
    /\ chPc' = "built"
    /\ UNCHANGED <<chAlgo, chStart, chLinks, chRound, chPwd, chTrail, chTarget,
                   chCracker, chFound>>
    /\ UNCHANGED <<threadVars, crackVars, callVars, cacheVars, pipeVars, serverVars>>

TargetHash(k) == hex_encode(hash_with_algorithm(chTrail[k], chAlgo))

\* The local cracker on the table of the one chain and the hash of chTrail[k].
CrackLocal(k) ==
    /\ chPc = "built"
    /\ chTarget' = k
    /\ chCracker' = "local"
    /\ chFound' = crack_passwords(<<[start |-> chStart, end |-> chEnd]>>, chLinks,
                                  <<TargetHash(k)>>, chAlgo, Len(chStart)).found
    /\ chPc' = "cracked"
    /\ UNCHANGED <<chAlgo, chStart, chLinks, chRound, chPwd, chTrail, chEnd>>
    /\ UNCHANGED <<threadVars, crackVars, callVars, cacheVars, pipeVars, serverVars>>

\* The server cracker on the same table, uploaded, and the same hash.
CrackServer(k) ==
    /\ chPc = "built"
    /\ chTarget' = k
    /\ chCracker' = "server"
    /\ chFound' = server_crack_passwords(
                      <<[num_links |-> chLinks,
                         chains |-> <<[start |-> chStart, end |-> chEnd]>>]>>,
                      <<TargetHash(k)>>, chAlgo, Len(chStart)).found
    /\ chPc' = "cracked"
    /\ UNCHANGED <<chAlgo, chStart, chLinks, chRound, chPwd, chTrail, chEnd>>
    /\ UNCHANGED <<threadVars, crackVars, callVars, cacheVars, pipeVars, serverVars>>

ChainNext ==
    \/ BuildRound
    \/ BuildFinish
    \/ \E k \in 1..Len(chTrail) : CrackLocal(k)
    \/ \E k \in 1..Len(chTrail) : CrackServer(k)

ChainSpec == ChainInit /\ [][ChainNext]_vars

----------------------------------------------------------------------------
(* The pipelines of gen-rainbow-table, gen-hashes and gen-passwords: a     *)
(* reader, worker threads, a writer thread and the main thread's joins,    *)
(* connected by two unbounded crossbeam channels.  The first state is the  *)
(* call of the tool's function with its arguments.  A send and a recv are  *)
(* atomic; a recv on an empty channel blocks while a Sender of the channel *)
(* is alive and fails once every Sender has been dropped.  Reads of the    *)
(* input and writes to the output succeed.                                 *)

\* The algorithms given to the tools; no worker knows "sha1".  The table
\* builder is given "scrypt" as well.
PipeAlgorithms == {"md5", "sha256", "sha1"}

\* The lines an input file is made of.
PasswordPool == {<<97, 98>>, <<120>>}

\* num_links of the tables built.
TableLinks == {2}

\* The characters generate_random_string draws from (of 32..=126).
RandomChars == {97, 98}

InputFiles == UNION {[1..n -> PasswordPool] : n \in 0..MaxInput}

\* `x as u8`.
AsU8(x) == x % 256

\* to_be_bytes of an integer `len` bytes wide.
RECURSIVE ToBigEndian(_, _)
ToBigEndian(n, len) ==
    IF len = 0 THEN <<>> ELSE Append(ToBigEndian(n \div 256, len - 1), n % 256)

Zeros(n) == [i \in 1..n |-> 0]

\* algorithm.to_lowercase().as_bytes()
AlgorithmBytes(algorithm) ==
    CASE algorithm = "md5" -> <<109, 100, 53>>
      [] algorithm = "sha256" -> <<115, 104, 97, 50, 53, 54>>
      [] algorithm = "sha3_512" -> <<115, 104, 97, 51, 95, 53, 49, 50>>
      [] algorithm = "sha1" -> <<115, 104, 97, 49>>
      [] algorithm = "scrypt" -> <<115, 99, 114, 121, 112, 116>>

\* b"rainbowtable"
RainbowMagic == <<114, 97, 105, 110, 98, 111, 119, 116, 97, 98, 108, 101>>

\* The table header read_passwords builds from the first line.
RainbowMetadata(algorithm, password, num_links) ==
    RainbowMagic \o <<1>>
        \o <<AsU8(Len(AlgorithmBytes(algorithm)))>> \o AlgorithmBytes(algorithm)
        \o <<AsU8(Len(password))>>
        \o Zeros(16 - 1) \o ToBigEndian(CharsetSize, 1)
        \o Zeros(16 - 8) \o ToBigEndian(num_links, 8)
        \o <<AsciiOffset>>

\* The hash file header send_passwords builds from the first line.
HashMetadata(algorithm, password) ==
    <<1, AsU8(Len(AlgorithmBytes(algorithm)))>> \o AlgorithmBytes(algorithm)
        \o <<AsU8(Len(password))>>

Metadata(tool, algorithm, password, num_links) ==
    IF tool = "gen_rainbow_table" THEN RainbowMetadata(algorithm, password, num_links)
    ELSE HashMetadata(algorithm, password)

\* A reader that hands the line to the workers before it sends the header.
LineSends_PasswordFirst(tool, first, algorithm, password, num_links) ==
    <<[to |-> "password", msg |-> password]>>
        \o (IF first
            THEN <<[to |-> "printer", msg |-> Metadata(tool, algorithm, password, num_links)]>>
            ELSE <<>>)

\* A reader that never clears first_iteration.
LineSends_MetadataEveryLine(tool, first, algorithm, password, num_links) ==
    <<[to |-> "printer", msg |-> Metadata(tool, algorithm, password, num_links)],
      [to |-> "password", msg |-> password]>>

\* The sends the reader's loop body makes for one line, in program order.
LineSends(tool, first, algorithm, password, num_links) ==
    (IF first
     THEN <<[to |-> "printer", msg |-> Metadata(tool, algorithm, password, num_links)]>>
     ELSE <<>>)
        \o <<[to |-> "password", msg |-> password]>>

\* The record a table worker sends for one password.
ChainRecord(algorithm, password, num_links) ==
    password \o create_chain(algorithm, password, num_links)

\* The records and the digests of the lines of PasswordPool, computed once.
ChainRecords ==
    [algorithm \in ChainAlgorithms |-> [password \in PasswordPool |->
        [num_links \in TableLinks |-> ChainRecord(algorithm, password, num_links)]]]

Digests ==
    [algorithm \in ChainAlgorithms |-> [password \in PasswordPool |->
        hash_with_algorithm(password, algorithm)]]

\* The body of a table worker's loop: what it sends and where it goes next.
\* The "scrypt" arm calls create_chain with generate_scrypt_hash, whose
\* output is a PHC string of more than 64 bytes: in the first round
\* U512::from_little_endian refuses it and the worker thread panics.
rainbow_worker_body(algorithm, password, num_links) ==
    CASE algorithm \in ChainAlgorithms ->
             [sends |-> <<ChainRecords[algorithm][password][num_links]>>, pc |-> "recv"]
      [] algorithm = "scrypt" -> [sends |-> <<>>, pc |-> "panicked"]
      [] OTHER -> [sends |-> <<>>, pc |-> "recv"]

\* The body of a hash worker's loop; an unknown algorithm makes it return.
hash_worker_body(algorithm, password) ==
    IF algorithm \in ChainAlgorithms
    THEN [sends |-> <<Digests[algorithm][password]>>, pc |-> "recv"]
    ELSE [sends |-> <<>>, pc |-> "done"]

\* generate_passwords' split of `num` over the generator threads.
num_per_threads(threads, num) == IF threads <= num THEN num \div threads ELSE num

new_thread_count(threads, num) == IF threads <= num THEN threads ELSE num

\* generate_random_string(1)
RandomStrings == {<<c>> : c \in RandomChars}

\* What the writer writes for one message.
WriterBytes(tool, msg) == IF tool = "gen_passwords" THEN msg \o <<10>> ELSE msg

\* A reader that keeps its password Sender for ever.
TxPasswordAlive_NeverDropped == TRUE

\* tx_password (tx_encrpyter) is owned by the reader function alone.
TxPasswordAlive == plReaderPc = "run"

\* tx_printer is owned by the reader function, a clone of it by each worker.
TxPrinterAlive ==
    plReaderPc = "run" \/ \E w \in 1..plWorkers : plWorkerPc[w] \notin {"done", "panicked"}

\* rx_password (rx_encrpyter): one clone per worker.
RxPasswordAlive == \E w \in 1..plWorkers : plWorkerPc[w] \notin {"done", "panicked"}

ReaderTools == {"gen_rainbow_table", "gen_hashes"}

\* A tool that spawns its threads whatever --threads is.
validate_inputs_accepting_zero_threads(tool, num_links, threads) ==
    IF tool = "gen_rainbow_table" /\ num_links = 0 THEN "InvalidInput" ELSE "Ok"

\* The checks a tool makes on its arguments before anything else:
\* validate_inputs in gen-rainbow-table (num_links first, then threads; the
\* algorithm is only checked for being non-empty), `threads < 1` in
\* gen-hashes and gen-passwords.
validate_inputs(tool, num_links, threads) ==
    CASE tool = "gen_rainbow_table" /\ num_links = 0 -> "InvalidInput"
      [] threads = 0 -> "InvalidThreadCount"
      [] OTHER -> "Ok"

\* ------------------------------------------------------------------------
\* The readers of the two file formats: dump-rainbow-table, the loaders of
\* crack, dump-hashes and the server's upload handler.  A file or a stream is
\* the sequence of its bytes; a read_exact past its end fails.

Err(e) == [ok |-> FALSE, err |-> e]

\* The bytes of a file, given the writes made to it.
RECURSIVE concat(_)
concat(parts) == IF parts = <<>> THEN <<>> ELSE Head(parts) \o concat(Tail(parts))

\* u128::from_be_bytes, for values the checker's integers hold.
RECURSIVE from_be_bytes(_)
from_be_bytes(bytes) ==
    IF bytes = <<>> THEN 0
    ELSE 256 * from_be_bytes(SubSeq(bytes, 1, Len(bytes) - 1)) + bytes[Len(bytes)]

\* str::from_utf8 succeeds.  No text of the model holds a multi-byte
\* character, so a byte of 128 or more is an invalid sequence.
Utf8Valid(bytes) == \A i \in 1..Len(bytes) : bytes[i] < 128

\* String::from_utf8_lossy: U+FFFD (EF BF BD) for each invalid byte.
RECURSIVE from_utf8_lossy(_)
from_utf8_lossy(bytes) ==
    IF bytes = <<>> THEN <<>>
    ELSE (IF Head(bytes) < 128 THEN <<Head(bytes)>> ELSE <<239, 191, 189>>)
         \o from_utf8_lossy(Tail(bytes))

\* str::to_lowercase on ASCII text.
to_lowercase(bytes) ==
    [i \in 1..Len(bytes) |-> IF bytes[i] \in 65..90 THEN bytes[i] + 32 ELSE bytes[i]]

\* The algorithm a name of the model spells.
AlgorithmNamed(bytes) ==
    CHOOSE a \in {"md5", "sha256", "sha3_512", "sha1", "scrypt"} : AlgorithmBytes(a) = bytes

\* slice::chunks(n) for n > 0: the last chunk may be shorter.
RECURSIVE chunks(_, _)
chunks(data, n) ==
    IF data = <<>> THEN <<>>
    ELSE IF Len(data) <= n THEN <<data>>
    ELSE <<SubSeq(data, 1, n)>> \o chunks(SubSeq(data, n + 1, Len(data)), n)

\* slice::chunks_exact(n) for n > 0: the complete chunks only.
chunks_exact(data, n) == SelectSeq(chunks(data, n), LAMBDA c : Len(c) = n)

\* The fields of a table header, as the sequence of read_exact calls of
\* dump_rainbow_table, load_rainbow_table and upload takes them; `rest` is
\* what follows the header.  Not ok when the data ends inside the header.
read_table_header(data) ==
    IF Len(data) >= 14 /\ Len(data) >= 48 + data[14]
    THEN LET n == data[14]
         IN  [ok |-> TRUE,
              magic |-> SubSeq(data, 1, 12),
              version |-> data[13],
              algorithm |-> SubSeq(data, 15, 14 + n),
              password_len |-> data[15 + n],
              char_set_size |-> from_be_bytes(SubSeq(data, 16 + n, 31 + n)),
              num_links |-> from_be_bytes(SubSeq(data, 32 + n, 47 + n)),
              ascii_offset |-> data[48 + n],
              rest |-> SubSeq(data, 49 + n, Len(data))]
    ELSE [ok |-> FALSE]

\* The (start, end) halves of each chunk.
SplitChains(cs, password_len) ==
    [k \in 1..Len(cs) |->
        [start |-> SubSeq(cs[k], 1, password_len),
         end |-> SubSeq(cs[k], password_len + 1, Len(cs[k]))]]

\* dump_rainbow_table: what it prints (the header fields and a line per
\* chain) and its result.  An incomplete last chunk is an error after the
\* complete ones have been printed; a password length of 0 makes chunks(0)
\* panic.
dump_rainbow_table(data) ==
    LET h == read_table_header(data)
    IN  CASE Len(data) < 12 -> Err("FileRead")
          [] Len(data) >= 12 /\ SubSeq(data, 1, 12) # RainbowMagic -> Err("InvalidInput")
          [] Len(data) >= 12 /\ SubSeq(data, 1, 12) = RainbowMagic /\ ~h.ok ->
               IF Len(data) >= 14 /\ Len(data) >= 14 + data[14]
                    /\ ~Utf8Valid(SubSeq(data, 15, 14 + data[14]))
               THEN Err("InvalidInput")
               ELSE Err("FileRead")
          [] OTHER ->
               IF ~Utf8Valid(h.algorithm) THEN Err("InvalidInput")
               ELSE IF h.password_len = 0 THEN Err("panic")
               ELSE LET cs == chunks(h.rest, 2 * h.password_len)
                        whole == SelectSeq(cs, LAMBDA c : Len(c) = 2 * h.password_len)
                        lines == SplitChains(whole, h.password_len)
                    IN  [ok |-> Len(whole) = Len(cs),
                         err |-> IF Len(whole) = Len(cs) THEN "" ELSE "InvalidInput",
                         version |-> h.version,
                         algorithm |-> h.algorithm,
                         password_len |-> h.password_len,
                         char_set_size |-> h.char_set_size,
                         num_links |-> h.num_links,
                         ascii_offset |-> h.ascii_offset,
                         chains |-> [k \in 1..Len(lines) |->
                                       [start |-> from_utf8_lossy(lines[k].start),
                                        end |-> from_utf8_lossy(lines[k].end)]]]

\* crack's load_rainbow_table: the RainbowTable, or the error.
load_rainbow_table(data) ==
    LET h == read_table_header(data)
    IN  CASE Len(data) < 12 -> Err("read_exact")
          [] Len(data) >= 12 /\ SubSeq(data, 1, 12) # RainbowMagic ->
               Err("Invalid magic word in rainbow table.")
          [] Len(data) >= 12 /\ SubSeq(data, 1, 12) = RainbowMagic
               /\ (Len(data) < 14 \/ Len(data) < 14 + data[14]) -> Err("read_exact")
          [] OTHER ->
               LET name == to_lowercase(SubSeq(data, 15, 14 + data[14]))
               IN  IF ~Utf8Valid(name) THEN Err("from_utf8")
                   ELSE IF name \notin {AlgorithmBytes(a) : a \in ChainAlgorithms}
                   THEN Err("Unsupported algorithm.")
                   ELSE IF ~h.ok THEN Err("read_exact")
                   ELSE IF h.password_len = 0 THEN Err("panic")
                   ELSE LET cs == chunks_exact(h.rest, 2 * h.password_len)
                        IN  IF \E k \in 1..Len(cs) : ~Utf8Valid(cs[k])
                            THEN Err("from_utf8")
                            ELSE [ok |-> TRUE,
                                  chains |-> SplitChains(cs, h.password_len),
                                  algorithm |-> AlgorithmNamed(name),
                                  password_len |-> h.password_len,
                                  num_links |-> h.num_links,
                                  charset |-> Charset,
                                  ascii_offset |-> h.ascii_offset]

\* dump_hashes' get_hash_size and load_hashes' hash_len, in the model's
\* digest widths.
get_hash_size(algorithm) == DigestLen(algorithm)

\* dump_hashes: what it prints and its result.  For "scrypt" it prints the
\* pieces of the text after the header, split at "$scrypt"; the text is
\* kept whole here.  An unknown algorithm makes get_hash_size panic.
dump_hashes(data) ==
    CASE Len(data) < 4 -> Err("Invalid file format: file too small")
      [] Len(data) >= 4 /\ Len(data) < 2 + data[2] + 1 -> Err("Invalid algorithm length")
      [] OTHER ->
           LET algo_len == data[2]
               name == to_lowercase(from_utf8_lossy(SubSeq(data, 3, 2 + algo_len)))
           IN  IF name = AlgorithmBytes("scrypt")
               THEN [ok |-> TRUE, err |-> "", version |-> data[1],
                     algorithm |-> from_utf8_lossy(SubSeq(data, 3, 2 + algo_len)),
                     password_len |-> data[3 + algo_len],
                     scrypt |-> from_utf8_lossy(SubSeq(data, 4 + algo_len, Len(data)))]
               ELSE IF name \notin {AlgorithmBytes(a) : a \in ChainAlgorithms}
               THEN Err("panic")
               ELSE LET hash_size == get_hash_size(AlgorithmNamed(name))
                        body == SubSeq(data, 4 + algo_len, Len(data))
                        hashes == chunks_exact(body, hash_size)
                        remaining == SubSeq(body, hash_size * Len(hashes) + 1, Len(body))
                        clean == \A i \in 1..Len(remaining) : remaining[i] = 0
                    IN  [ok |-> clean,
                         err |-> IF clean THEN "" ELSE "Trailing data detected after hashes",
                         version |-> data[1],
                         algorithm |-> from_utf8_lossy(SubSeq(data, 3, 2 + algo_len)),
                         password_len |-> data[3 + algo_len],
                         hashes |-> [k \in 1..Len(hashes) |-> hex_encode(hashes[k])]]

\* crack's load_hashes: the header is skipped, the algorithm is the table's.
load_hashes(data, algorithm) ==
    CASE Len(data) < 2 -> Err("read_exact")
      [] Len(data) >= 2 /\ Len(data) < 2 + data[2] + 1 -> Err("read_exact")
      [] OTHER ->
           LET hash_len == get_hash_size(algorithm)
               buffer == SubSeq(data, 4 + data[2], Len(data))
           IN  IF Len(buffer) % hash_len # 0
               THEN Err("Invalid hash file length.")
               ELSE LET cs == chunks_exact(buffer, hash_len)
                    IN  [ok |-> TRUE, hashes |-> [k \in 1..Len(cs) |-> hex_encode(cs[k])]]

\* The text of upload()'s Ok result, which handle_client writes.
upload_response(num_inserted, algorithm) ==
    [head |-> "Successfully uploaded", chains |-> num_inserted, algorithm |-> algorithm]

\* upload()'s result when it does not reach its last line.
UploadFails(outcome, num_inserted, self) ==
    [outcome |-> outcome, num_inserted |-> num_inserted, self |-> self, response |-> <<>>]

\* The loop of upload over what follows the header: read_exact of chain_size
\* bytes, split_at(password_len), insert_chain; UnexpectedEof ends it.  A
\* chain_size below password_len makes split_at panic, and with a chain_size
\* of 0 every read_exact succeeds, so the loop of a password length of 0
\* never ends.
RECURSIVE UploadLoop(_, _, _, _, _, _, _)
UploadLoop(self, algorithm, password_len, num_links, chain_size, stream, num_inserted) ==
    IF Len(stream) < chain_size
    THEN [outcome |-> "Ok", num_inserted |-> num_inserted, self |-> self,
          response |-> upload_response(num_inserted, algorithm)]
    ELSE IF password_len > chain_size
    THEN UploadFails("panic", num_inserted, self)
    ELSE IF chain_size = 0
    THEN UploadFails("diverges", num_inserted, self)
    ELSE LET chain_buf == SubSeq(stream, 1, chain_size)
             my_chain == [start_chain |-> from_utf8_lossy(SubSeq(chain_buf, 1, password_len)),
                          end_chain |->
                              from_utf8_lossy(SubSeq(chain_buf, password_len + 1, chain_size))]
         IN  UploadLoop(insert_chain(self, algorithm, password_len, num_links, my_chain),
                        algorithm, password_len, num_links, chain_size,
                        SubSeq(stream, chain_size + 1, Len(stream)), num_inserted + 1)

\* upload on the cache `self` and the stream `payload`, which the client ends
\* after the payload.  `password_len[0] * 2` is a u8 multiplication: from a
\* password length of 128 on, a debug build panics there and a release
\* build wraps.
upload(self, payload, build) ==
    LET h == read_table_header(payload)
    IN  CASE Len(payload) < 12 -> UploadFails("IoError", 0, self)
          [] Len(payload) >= 12 /\ ~Utf8Valid(SubSeq(payload, 1, 12)) ->
               UploadFails("Utf8Error", 0, self)
          [] Len(payload) >= 12 /\ Utf8Valid(SubSeq(payload, 1, 12)) /\ ~h.ok ->
               IF Len(payload) >= 14 /\ Len(payload) >= 14 + payload[14]
                    /\ ~Utf8Valid(SubSeq(payload, 15, 14 + payload[14]))
               THEN UploadFails("Utf8Error", 0, self)
               ELSE UploadFails("IoError", 0, self)
          [] OTHER ->
               IF ~Utf8Valid(h.algorithm)
               THEN UploadFails("Utf8Error", 0, self)
               ELSE IF build = "debug" /\ h.password_len * 2 > 255
               THEN UploadFails("panic", 0, self)
               ELSE UploadLoop(self, AlgorithmNamed(h.algorithm), h.password_len,
                               h.num_links, AsU8(h.password_len * 2), h.rest, 0)

\* The tool's function has been called: no thread, no channel, no output file.
PipeInit ==
    /\ ChainOff /\ CacheOff /\ ServerOff /\ CrackOff /\ CallOff /\ ThreadsOff
    /\ plResult = "call"
    /\ plTool \in ReaderTools \cup {"gen_passwords"}
    /\ plThreads \in 0..MaxThreads
    /\ IF plTool = "gen_passwords"
       THEN /\ plNum \in 0..MaxNum
            /\ plAlgo = "md5" /\ plLinks = 0 /\ plInput = <<>>
       ELSE /\ plNum = 0
            /\ plAlgo \in (IF plTool = "gen_rainbow_table"
                           THEN PipeAlgorithms \cup {"scrypt"} ELSE PipeAlgorithms)
            /\ plLinks \in (IF plTool = "gen_rainbow_table"
                            THEN TableLinks \cup {0} ELSE {0})
            /\ plInput \in InputFiles
    /\ plWorkers = 0
    /\ plWorkerPc = <<>> /\ plWorkerLeft = <<>> /\ plWorkerItem = <<>>
    /\ plReaderPc = "none"
    /\ plLine = 1 /\ plSent = 0 /\ first_iteration = TRUE
    /\ passwordChannel = <<>> /\ printerChannel = <<>>
    /\ plWriterPc = "none" /\ plFile = <<>> /\ plJoined = 0 /\ plDump = <<>>

\* The head of the tool's function: the arguments are validated; if they
\* pass, the channels are made, the workers (generators) and the writer
\* are spawned, the writer creating the output file, and the reader starts.
Start ==
    /\ plResult = "call"
    /\ LET v == validate_inputs(plTool, plLinks, plThreads)
           n == IF plTool = "gen_passwords"
                THEN new_thread_count(plThreads, plNum) ELSE plThreads
       IN  IF v # "Ok"
           THEN /\ plResult' = v
                /\ UNCHANGED <<plWorkers, plWorkerPc, plWorkerLeft, plWorkerItem,
                               plReaderPc, plWriterPc>>
           ELSE /\ plResult' = "run"
                /\ plWorkers' = n
                /\ plWorkerPc' = [w \in 1..n |->
                        IF plTool = "gen_passwords" THEN "gen" ELSE "recv"]
                /\ plWorkerLeft' = [w \in 1..n |->
                        IF plTool = "gen_passwords"
                        THEN num_per_threads(plThreads, plNum) ELSE 0]
                /\ plWorkerItem' = [w \in 1..n |-> <<>>]
                /\ plReaderPc' = IF plTool = "gen_passwords" THEN "done" ELSE "run"
                /\ plWriterPc' = "run"
    /\ UNCHANGED <<plDump, plTool, plThreads, plNum, plAlgo, plLinks, plInput, plLine, plSent,
                   first_iteration, passwordChannel, printerChannel, plFile, plJoined>>
    /\ UNCHANGED <<threadVars, crackVars, callVars, chainVars, cacheVars, serverVars>>

\* One send of the reader's loop body (read_passwords, send_passwords).  A
\* send on the password channel fails, and is only logged, once every worker
\* has returned.
ReaderSend ==
    /\ plTool \in ReaderTools /\ plReaderPc = "run" /\ plLine <= Len(plInput)
    /\ LET sends == LineSends(plTool, first_iteration, plAlgo, plInput[plLine], plLinks)
           s == sends[plSent + 1]
       IN  /\ IF s.to = "printer"
              THEN /\ printerChannel' = Append(printerChannel, s.msg)
                   /\ UNCHANGED passwordChannel
              ELSE /\ passwordChannel' = IF RxPasswordAlive
                                         THEN Append(passwordChannel, s.msg)
                                         ELSE passwordChannel
                   /\ UNCHANGED printerChannel
           /\ IF plSent + 1 = Len(sends)
              THEN plLine' = plLine + 1 /\ plSent' = 0 /\ first_iteration' = FALSE
              ELSE plSent' = plSent + 1 /\ UNCHANGED <<plDump, plLine, first_iteration>>
    /\ UNCHANGED <<plDump, plResult, plTool, plThreads, plNum, plAlgo, plLinks, plInput,
                   plWorkers,
                   plReaderPc, plWorkerPc, plWorkerItem, plWorkerLeft, plWriterPc,
                   plFile, plJoined>>
    /\ UNCHANGED <<threadVars, crackVars, callVars, chainVars, cacheVars, serverVars>>

\* The reader's loop ends at the end of the input; the function returns and
\* drops its two Senders.
ReaderReturn ==
    /\ plTool \in ReaderTools /\ plReaderPc = "run" /\ plLine > Len(plInput)
    /\ plReaderPc' = "done"
    /\ UNCHANGED <<plDump, plResult, plTool, plThreads, plNum, plAlgo, plLinks, plInput,
                   plWorkers,
                   plLine, plSent, first_iteration, passwordChannel, printerChannel,
                   plWorkerPc, plWorkerItem, plWorkerLeft, plWriterPc, plFile, plJoined>>
    /\ UNCHANGED <<threadVars, crackVars, callVars, chainVars, cacheVars, serverVars>>

\* rx.recv() returns Ok(password): exactly one worker takes the message.
WorkerRecv(w) ==
    /\ plTool \in ReaderTools /\ plWorkerPc[w] = "recv" /\ passwordChannel # <<>>
    /\ plWorkerItem' = [plWorkerItem EXCEPT ![w] = Head(passwordChannel)]
    /\ passwordChannel' = Tail(passwordChannel)
    /\ plWorkerPc' = [plWorkerPc EXCEPT ![w] = "send"]
    /\ UNCHANGED <<plDump, plResult, plTool, plThreads, plNum, plAlgo, plLinks, plInput,
                   plWorkers,
                   plReaderPc, plLine, plSent, first_iteration, printerChannel,
                   plWorkerLeft, plWriterPc, plFile, plJoined>>
    /\ UNCHANGED <<threadVars, crackVars, callVars, chainVars, cacheVars, serverVars>>

\* The rest of the worker's loop body: compute, send the result as one message.
WorkerSend(w) ==
    /\ plTool \in ReaderTools /\ plWorkerPc[w] = "send"
    /\ LET body == IF plTool = "gen_rainbow_table"
                   THEN rainbow_worker_body(plAlgo, plWorkerItem[w], plLinks)
                   ELSE hash_worker_body(plAlgo, plWorkerItem[w])
       IN  /\ printerChannel' = printerChannel \o body.sends
           /\ plWorkerPc' = [plWorkerPc EXCEPT ![w] = body.pc]
    /\ plWorkerItem' = [plWorkerItem EXCEPT ![w] = <<>>]
    /\ UNCHANGED <<plDump, plResult, plTool, plThreads, plNum, plAlgo, plLinks, plInput,
                   plWorkers,
                   plReaderPc, plLine, plSent, first_iteration, passwordChannel,
                   plWorkerLeft, plWriterPc, plFile, plJoined>>
    /\ UNCHANGED <<threadVars, crackVars, callVars, chainVars, cacheVars, serverVars>>

\* rx.recv() returns Err: the channel is empty and its Sender dropped.  (In
\* gen-hashes the remaining rounds of the outer `for` fail the same way.)
WorkerReturn(w) ==
    /\ plTool \in ReaderTools /\ plWorkerPc[w] = "recv"
    /\ passwordChannel = <<>> /\ ~TxPasswordAlive
    /\ plWorkerPc' = [plWorkerPc EXCEPT ![w] = "done"]
    /\ UNCHANGED <<plDump, plResult, plTool, plThreads, plNum, plAlgo, plLinks, plInput,
                   plWorkers,
                   plReaderPc, plLine, plSent, first_iteration, passwordChannel,
                   printerChannel, plWorkerItem, plWorkerLeft, plWriterPc, plFile,
                   plJoined>>
    /\ UNCHANGED <<threadVars, crackVars, callVars, chainVars, cacheVars, serverVars>>

\* One iteration of a generator thread's loop (create_gen_password_thread).
GeneratorSend(w, random_string) ==
    /\ plTool = "gen_passwords" /\ plWorkerPc[w] = "gen" /\ plWorkerLeft[w] > 0
    /\ printerChannel' = Append(printerChannel, random_string)
    /\ plWorkerLeft' = [plWorkerLeft EXCEPT ![w] = @ - 1]
    /\ UNCHANGED <<plDump, plResult, plTool, plThreads, plNum, plAlgo, plLinks, plInput,
                   plWorkers,
                   plReaderPc, plLine, plSent, first_iteration, passwordChannel,
                   plWorkerPc, plWorkerItem, plWriterPc, plFile, plJoined>>
    /\ UNCHANGED <<threadVars, crackVars, callVars, chainVars, cacheVars, serverVars>>

GeneratorReturn(w) ==
    /\ plTool = "gen_passwords" /\ plWorkerPc[w] = "gen" /\ plWorkerLeft[w] = 0
    /\ plWorkerPc' = [plWorkerPc EXCEPT ![w] = "done"]
    /\ UNCHANGED <<plDump, plResult, plTool, plThreads, plNum, plAlgo, plLinks, plInput,
                   plWorkers,
                   plReaderPc, plLine, plSent, first_iteration, passwordChannel,
                   printerChannel, plWorkerItem, plWorkerLeft, plWriterPc, plFile,
                   plJoined>>
    /\ UNCHANGED <<threadVars, crackVars, callVars, chainVars, cacheVars, serverVars>>

\* The writer receives one message and writes it.
WriterWrite ==
    /\ plTool # "off" /\ plWriterPc = "run" /\ printerChannel # <<>>
    /\ plFile' = Append(plFile, WriterBytes(plTool, Head(printerChannel)))
    /\ printerChannel' = Tail(printerChannel)
    /\ UNCHANGED <<plDump, plResult, plTool, plThreads, plNum, plAlgo, plLinks, plInput,
                   plWorkers,
                   plReaderPc, plLine, plSent, first_iteration, passwordChannel,
                   plWorkerPc, plWorkerItem, plWorkerLeft, plWriterPc, plJoined>>
    /\ UNCHANGED <<threadVars, crackVars, callVars, chainVars, cacheVars, serverVars>>

\* The writer's recv fails: channel empty, every Sender dropped.
WriterReturn ==
    /\ plTool # "off" /\ plWriterPc = "run"
    /\ printerChannel = <<>> /\ ~TxPrinterAlive
    /\ plWriterPc' = "done"
    /\ UNCHANGED <<plDump, plResult, plTool, plThreads, plNum, plAlgo, plLinks, plInput,
                   plWorkers,
                   plReaderPc, plLine, plSent, first_iteration, passwordChannel,
                   printerChannel, plWorkerPc, plWorkerItem, plWorkerLeft, plFile,
                   plJoined>>
    /\ UNCHANGED <<threadVars, crackVars, callVars, chainVars, cacheVars, serverVars>>

\* `handles` holds the workers in spawn order, then the writer.  A thread
\* that panicked has ended too.
ThreadDone(i) ==
    IF i <= plWorkers THEN plWorkerPc[i] \in {"done", "panicked"} ELSE plWriterPc = "done"

\* The main thread joins the next handle.  In gen-rainbow-table it has run
\* read_passwords itself before the first join.  The join of a thread that
\* panicked is an Err and the function returns ThreadJoin at once; after
\* the last join it returns Ok(()).
Join ==
    /\ plResult = "run" /\ plJoined < plWorkers + 1
    /\ plTool = "gen_rainbow_table" => plReaderPc = "done"
    /\ ThreadDone(plJoined + 1)
    /\ IF plJoined < plWorkers /\ plWorkerPc[plJoined + 1] = "panicked"
       THEN plResult' = "ThreadJoin" /\ UNCHANGED plJoined
       ELSE /\ plJoined' = plJoined + 1
            /\ plResult' = IF plJoined = plWorkers THEN "Ok" ELSE "run"
    /\ UNCHANGED <<plDump, plTool, plThreads, plNum, plAlgo, plLinks, plInput, plWorkers,
                   plReaderPc, plLine, plSent, first_iteration, passwordChannel,
                   printerChannel, plWorkerPc, plWorkerItem, plWorkerLeft, plWriterPc,
                   plFile>>
    /\ UNCHANGED <<threadVars, crackVars, callVars, chainVars, cacheVars, serverVars>>

\* The tool's function has returned Ok(()).
Returned == plResult = "Ok"

\* The output of a finished gen-rainbow-table is given to dump-rainbow-table,
\* to crack's load_rainbow_table and, through client upload, to the upload
\* handler of a server with a new cache; the output of a finished gen-hashes
\* to dump-hashes and to crack's load_hashes, with the algorithm it was
\* made with.
Dump ==
    /\ Returned /\ plDump = <<>>
    /\ plTool \in ReaderTools /\ plAlgo \in ChainAlgorithms
    /\ \E build \in Builds :
        LET data == concat(plFile)
        IN  plDump' =
              IF plTool = "gen_rainbow_table"
              THEN <<[dumped |-> dump_rainbow_table(data),
                      loaded |-> load_rainbow_table(data),
                      uploaded |-> upload(new_with_size(DefaultCacheSize), data, build)]>>
              ELSE <<[dumped |-> dump_hashes(data),
                      loaded |-> load_hashes(data, plAlgo)]>>
    /\ UNCHANGED <<plResult, plTool, plThreads, plNum, plAlgo, plLinks, plInput,
                   plWorkers, plReaderPc, plLine, plSent, first_iteration,
                   passwordChannel, printerChannel, plWorkerPc, plWorkerItem,
                   plWorkerLeft, plWriterPc, plFile, plJoined>>
    /\ UNCHANGED <<threadVars, crackVars, callVars, chainVars, cacheVars, serverVars>>

\* The steps of the tool's threads.
PipeRun ==
    \/ Start
    \/ ReaderSend
    \/ ReaderReturn
    \/ \E w \in 1..plWorkers : WorkerRecv(w)
    \/ \E w \in 1..plWorkers : WorkerSend(w)
    \/ \E w \in 1..plWorkers : WorkerReturn(w)
    \/ \E w \in 1..plWorkers : \E s \in RandomStrings : GeneratorSend(w, s)
    \/ \E w \in 1..plWorkers : GeneratorReturn(w)
    \/ WriterWrite
    \/ WriterReturn
    \/ Join

PipeNext == PipeRun \/ Dump

PipeSpec == PipeInit /\ [][PipeNext]_vars

\* Every thread that can take a step is eventually scheduled.
PipeFairSpec == PipeSpec /\ WF_vars(PipeRun)

----------------------------------------------------------------------------
(* The server.  main builds a multi-thread tokio runtime of async_threads   *)
(* workers and runs start_server on the main thread with block_on; the      *)
(* accept loop spawns one handle_client task per connection.  A worker      *)
(* polls one task at a time, and the task keeps the worker until it         *)
(* returns or reaches an .await whose data has not arrived.  The limiter's  *)
(* acquire is a blocking call on a std Mutex and Condvar: a task waiting    *)
(* in it keeps its worker thread.  A client's request arrives in two        *)
(* parts: the magic word with the metadata, then the payload with the end   *)
(* of the stream.                                                           *)

Clients == 1..MaxClients

\* The magic words clients send: "other" is a six-byte word that is neither
\* "crack" nor "upload", "not_utf8" one that is not valid UTF-8.
RequestKinds == {"crack", "upload", "other", "not_utf8"}

\* The algorithms the payloads name: of the hash files and of the tables.
CrackAlgorithms == {"md5"}
UploadAlgorithms == {"md5", "sha256"}

\* The table every upload carries: password length 1, one link, the chain
\* "a" -> "z".
UploadTable == [password_len |-> 1, num_links |-> 1, chains |-> <<UploadedChain(1)>>]

\* The hash file every crack request carries: password length 1 and the raw
\* digest of "a".
CrackFile(algo) ==
    [password_len |-> 1, buffer |-> <<hash_with_algorithm(UploadedChain(1).start_chain, algo)>>]

\* buffer.chunks_exact(hash_len).map(hex_encode)
RequestHashes == [a \in CrackAlgorithms |->
    [i \in DOMAIN CrackFile(a).buffer |-> hex_encode(CrackFile(a).buffer[i])]]

\* CrackLimiter::release: `*count -= 1`.
count_kept(cnt) == cnt

count_released(cnt) == cnt - 1

\* An acquire whose loop tests `count > max`.
acquire_admits_one_more(cnt, max) == ~(cnt > max)

\* acquire leaves its wait loop, and takes a permit, when not count >= max.
acquire_admits(cnt, max) == ~(cnt >= max)

\* start_server has not returned.
Serving == serverResult = <<>>

\* The task is being polled by a worker thread.
Running(c) == c \in worker

\* The task has returned.
Finished(c) == connPc[c] \in {"done", "failed"}

\* The task is suspended at an .await.
Parked(c) ==
    /\ connPc[c] # "off" /\ ~Finished(c) /\ ~Running(c) /\ c \notin runnable

\* The task is suspended at an .await of its stream.
AwaitsStream(c) == Parked(c) /\ c \notin cacheWaiters

\* The part of the request the task's next read needs: 1 the magic word, 2
\* the metadata and the payload, more than that the end of the stream.
Needs(c) == CASE connPc[c] = "read_request" -> 1
              [] connPc[c] = "read_metadata" -> 2
              [] connPc[c] = "upload" -> 2 + connInserted[c]
              [] connPc[c] = "crack" -> 3
              [] OTHER -> 0

\* The task is at a read of its stream that its worker thread has started.
\* What clients do is placed there: bytes that arrive before the read
\* starts are read as bytes that arrive as it starts.
AtRead(c) == Needs(c) > connNet[c] /\ (Running(c) \/ AwaitsStream(c))

\* What the task's next read of its stream returns.
StreamRead(c) ==
    IF Needs(c) <= connNet[c] THEN "Ok"
    ELSE CASE connEnded[c] = "open" -> "Pending"
           [] connEnded[c] = "eof" -> "UnexpectedEof"
           [] connEnded[c] = "reset" -> "ConnectionReset"

\* The worker stops polling task c.
Yield(c) == worker \ {c}

\* handle_client's branch on the magic word, taken once the metadata is read.
dispatch(magic_word_str) ==
    CASE magic_word_str = "upload" -> [pc |-> "upload", err |-> ""]
      [] magic_word_str = "crack" -> [pc |-> "acquire", err |-> ""]
      [] OTHER -> [pc |-> "failed", err |-> "InvalidMagicWord"]

\* The spawned task's match on handle_client's result, with an error passed
\* on to the accept loop.
task_exit_propagating(result) ==
    IF result = "Ok" THEN <<>> ELSE <<"task", result>>

\* The spawned task's match on handle_client's result: both arms print, and
\* nothing reaches the accept loop.
task_exit(result) == <<>>

\* "<hex_hash>: <password>"
ResponseLine(k, v) == k \o <<58, 32>> \o v

\* What handle_client writes for crack()'s result.
crack_response(result) ==
    IF result.ok
    THEN [head |-> "Successfully Cracked Password",
          lines |-> {ResponseLine(k, result.found[k]) : k \in DOMAIN result.found}]
    ELSE [head |-> "Error", message |-> result.err]

\* The buckets of a chain map as crack_passwords iterates them.
RECURSIVE BucketsOf(_, _)
BucketsOf(chain_map, keys) ==
    IF keys = {} THEN <<>>
    ELSE LET l == CHOOSE k \in keys : \A j \in keys : k <= j
         IN  <<[num_links |-> l,
                chains |-> [i \in DOMAIN chain_map[l] |->
                              [start |-> chain_map[l][i].start_chain,
                               end |-> chain_map[l][i].end_chain]]]>>
             \o BucketsOf(chain_map, keys \ {l})

\* for (hash, password) in cracked_passwords.iter() { insert_cracked_password }
RECURSIVE InsertAll(_, _, _, _)
InsertAll(self, algorithm, found, keys) ==
    IF keys = {} THEN self
    ELSE LET h == CHOOSE k \in keys : TRUE
         IN  InsertAll(insert_cracked_password(self, algorithm,
                                               [hash |-> h, password |-> found[h]]),
                       algorithm, found, keys \ {h})

\* The hashes of the request the cracked cache already answers.
CachedOf(self, algorithm, hashes) ==
    LET hits == {hashes[i] : i \in {j \in DOMAIN hashes :
                    get_cracked_password(self, algorithm, hashes[j]).ok}}
    IN  [h \in hits |-> get_cracked_password(self, algorithm, h).value.password]

\* The chain maps get_all_chains can return for the uploaded table: its
\* chain, once for every upload made.
UploadedMaps ==
    {(UploadTable.num_links :> [i \in 1..n |-> UploadTable.chains[1]]) : n \in 1..MaxClients}

\* crack_passwords(chains, hashes, algorithm, password_len, charset, 0) of
\* crack(), for every chain map, computed once.
CrackResults ==
    [a \in CrackAlgorithms |->
        [m \in UploadedMaps |->
            server_crack_passwords(BucketsOf(m, DOMAIN m), RequestHashes[a], a,
                                   CrackFile(a).password_len)]]

NoReply == [ok |-> TRUE, err |-> "", found |-> EmptyMap]

ServerInit ==
    /\ ChainOff /\ PipeOff /\ CrackOff /\ CallOff /\ ThreadsOff
    /\ max_cache_size = DefaultCacheSize
    /\ algorithms = new_with_size(max_cache_size).algorithms
    /\ current_cache_size = new_with_size(max_cache_size).current_cache_size
    /\ cacheCall = NoCall /\ cacheRet = [ok |-> TRUE]
    /\ compute_threads \in 0..MaxComputeThreads
    /\ async_threads \in 1..MaxAsyncThreads
    /\ count = 0
    /\ connKind = [c \in Clients |-> "none"]
    /\ connAlgo = [c \in Clients |-> ""]
    /\ connPc = [c \in Clients |-> "off"]
    /\ connNet = [c \in Clients |-> 0]
    /\ connEnded = [c \in Clients |-> "open"]
    /\ connInserted = [c \in Clients |-> 0]
    /\ connReply = [c \in Clients |-> NoReply]
    /\ connResult = [c \in Clients |-> ""]
    /\ connOut = [c \in Clients |-> <<>>]
    /\ cacheLock = 0
    /\ cacheWaiters = {}
    /\ serverResult = <<>>
    /\ worker = {}
    /\ runnable = {}

\* listener.accept() returns the next connection and its task is spawned.
\* Connections are numbered in the order they are accepted.
Accept(c) ==
    /\ Serving
    /\ connPc[c] = "off"
    /\ \A d \in Clients : d < c => connPc[d] # "off"
    /\ connPc' = [connPc EXCEPT ![c] = "read_request"]
    /\ runnable' = runnable \cup {c}
    /\ UNCHANGED <<compute_threads, async_threads, count, connKind, connAlgo, connNet,
                   connEnded,
                   connInserted, connReply, connResult, connOut, cacheLock,
                   cacheWaiters, serverResult, worker>>
    /\ UNCHANGED <<threadVars, crackVars, callVars, chainVars, cacheVars, pipeVars>>

\* listener.accept() fails: start_server returns the error.
AcceptError ==
    /\ Serving
    /\ \E c \in Clients : connPc[c] = "off"
    /\ serverResult' = <<"accept", "IoError">>
    /\ UNCHANGED <<compute_threads, async_threads, count, connKind, connAlgo, connPc,
                   connNet, connEnded, connInserted, connReply, connResult, connOut,
                   cacheLock, cacheWaiters, worker, runnable>>
    /\ UNCHANGED <<threadVars, crackVars, callVars, chainVars, cacheVars, pipeVars>>

\* The next part of client c's request arrives; a task suspended on the
\* stream is woken.
ClientSend(c) ==
    /\ Serving
    /\ connPc[c] # "off" /\ ~Finished(c) /\ connEnded[c] = "open" /\ connNet[c] < 2
    /\ AtRead(c)
    /\ connNet' = [connNet EXCEPT ![c] = @ + 1]
    /\ runnable' = IF AwaitsStream(c) THEN runnable \cup {c} ELSE runnable
    /\ UNCHANGED <<compute_threads, async_threads, count, connKind, connAlgo, connPc,
                   connEnded, connInserted, connReply, connResult, connOut, cacheLock,
                   cacheWaiters, serverResult, worker>>
    /\ UNCHANGED <<threadVars, crackVars, callVars, chainVars, cacheVars, pipeVars>>

\* Client c shuts down its write side (the repository's client does so after
\* its whole message; another client may do so after the magic word).
ClientShutdown(c) ==
    /\ Serving
    /\ connPc[c] # "off" /\ ~Finished(c) /\ connEnded[c] = "open"
    /\ connNet[c] >= 1 /\ AtRead(c)
    /\ connEnded' = [connEnded EXCEPT ![c] = "eof"]
    /\ runnable' = IF AwaitsStream(c) THEN runnable \cup {c} ELSE runnable
    /\ UNCHANGED <<compute_threads, async_threads, count, connKind, connAlgo, connPc,
                   connNet, connInserted, connReply, connResult, connOut, cacheLock,
                   cacheWaiters, serverResult, worker>>
    /\ UNCHANGED <<threadVars, crackVars, callVars, chainVars, cacheVars, pipeVars>>

\* Client c's connection is reset, its request sent.  (An earlier reset is
\* to the task's reads what an early shutdown is.)
ClientReset(c) ==
    /\ Serving
    /\ connPc[c] # "off" /\ ~Finished(c) /\ connEnded[c] # "reset"
    /\ connNet[c] = 2 /\ (AtRead(c) \/ connPc[c] = "respond")
    /\ connEnded' = [connEnded EXCEPT ![c] = "reset"]
    /\ runnable' = IF AwaitsStream(c) THEN runnable \cup {c} ELSE runnable
    /\ UNCHANGED <<compute_threads, async_threads, count, connKind, connAlgo, connPc,
                   connNet, connInserted, connReply, connResult, connOut, cacheLock,
                   cacheWaiters, serverResult, worker>>
    /\ UNCHANGED <<threadVars, crackVars, callVars, chainVars, cacheVars, pipeVars>>

\* An idle worker thread takes a woken task.
Poll(c) ==
    /\ Serving
    /\ Cardinality(worker) < async_threads /\ c \in runnable
    /\ worker' = worker \cup {c}
    /\ runnable' = runnable \ {c}
    /\ UNCHANGED <<compute_threads, async_threads, count, connKind, connAlgo, connPc,
                   connNet, connEnded, connInserted, connReply, connResult, connOut,
                   cacheLock, cacheWaiters, serverResult>>
    /\ UNCHANGED <<threadVars, crackVars, callVars, chainVars, cacheVars, pipeVars>>

\* A read returns Pending: the task is suspended and its worker is free.
Suspend(c) ==
    /\ Serving
    /\ Running(c) /\ Needs(c) > 0 /\ StreamRead(c) = "Pending"
    /\ worker' = Yield(c)
    /\ UNCHANGED <<compute_threads, async_threads, count, connKind, connAlgo, connPc,
                   connNet, connEnded, connInserted, connReply, connResult, connOut,
                   cacheLock, cacheWaiters, serverResult, runnable>>
    /\ UNCHANGED <<threadVars, crackVars, callVars, chainVars, cacheVars, pipeVars>>

\* handle_client returns `result`: the spawned task prints it and ends.
Return(c, result) ==
    /\ connPc' = [connPc EXCEPT ![c] = IF result = "Ok" THEN "done" ELSE "failed"]
    /\ connResult' = [connResult EXCEPT ![c] = result]
    /\ serverResult' = task_exit(result)
    /\ worker' = Yield(c)

\* handle_client reads the five bytes of the magic word and, unless they are
\* "crack", a sixth: `kind` is what it reads.  from_utf8 fails on bytes
\* that are not UTF-8.
ReadRequest(c, kind) ==
    /\ Serving
    /\ Running(c) /\ connPc[c] = "read_request"
    /\ StreamRead(c) # "Pending"
    /\ IF StreamRead(c) # "Ok"
       THEN /\ Return(c, "IoError")
            /\ UNCHANGED connKind
       ELSE IF kind = "not_utf8"
       THEN /\ Return(c, "Utf8Error")
            /\ connKind' = [connKind EXCEPT ![c] = kind]
       ELSE /\ connPc' = [connPc EXCEPT ![c] = "read_metadata"]
            /\ connKind' = [connKind EXCEPT ![c] = kind]
            /\ UNCHANGED <<connResult, serverResult, worker>>
    /\ UNCHANGED <<compute_threads, async_threads, count, connAlgo, connNet,
                   connEnded, connInserted, connReply, connOut, cacheLock, cacheWaiters,
                   runnable>>
    /\ UNCHANGED <<threadVars, crackVars, callVars, chainVars, cacheVars, pipeVars>>

\* extract_metadata reads the version (for upload the name) and the payload
\* size, whatever the magic word; then handle_client dispatches.
ExtractMetadata(c) ==
    /\ Serving
    /\ Running(c) /\ connPc[c] = "read_metadata"
    /\ StreamRead(c) # "Pending"
    /\ IF StreamRead(c) # "Ok" THEN Return(c, "IoError")
       ELSE IF dispatch(connKind[c]).pc = "failed"
       THEN Return(c, dispatch(connKind[c]).err)
       ELSE /\ connPc' = [connPc EXCEPT ![c] = dispatch(connKind[c]).pc]
            /\ UNCHANGED <<connResult, serverResult, worker>>
    /\ UNCHANGED <<compute_threads, async_threads, count, connKind, connAlgo, connNet,
                   connEnded, connInserted, connReply, connOut, cacheLock, cacheWaiters,
                   runnable>>
    /\ UNCHANGED <<threadVars, crackVars, callVars, chainVars, cacheVars, pipeVars>>

\* limiter.acquire(): one test of its loop, under the counter's lock.  The
\* task either takes a permit or waits on the Condvar, on its worker thread.
Acquire(c) ==
    /\ Serving
    /\ Running(c) /\ connPc[c] = "acquire"
    /\ IF acquire_admits(count, compute_threads)
       THEN count' = count + 1 /\ connPc' = [connPc EXCEPT ![c] = "crack"]
       ELSE count' = count /\ connPc' = [connPc EXCEPT ![c] = "cv_wait"]
    /\ UNCHANGED <<compute_threads, async_threads, connKind, connAlgo, connNet,
                   connEnded, connInserted, connReply, connResult, connOut, cacheLock,
                   cacheWaiters, serverResult, worker, runnable>>
    /\ UNCHANGED <<threadVars, crackVars, callVars, chainVars, cacheVars, pipeVars>>

\* cvar.wait returns to a notified thread, which tests the loop again.
CvWake(c) ==
    /\ Serving
    /\ connPc[c] = "cv_notified"
    /\ connPc' = [connPc EXCEPT ![c] = "acquire"]
    /\ UNCHANGED <<compute_threads, async_threads, count, connKind, connAlgo, connNet,
                   connEnded, connInserted, connReply, connResult, connOut, cacheLock,
                   cacheWaiters, serverResult, worker, runnable>>
    /\ UNCHANGED <<threadVars, crackVars, callVars, chainVars, cacheVars, pipeVars>>

\* cvar.wait may return with no notification.
SpuriousWake(c) ==
    /\ Serving
    /\ connPc[c] = "cv_wait"
    /\ connPc' = [connPc EXCEPT ![c] = "acquire"]
    /\ UNCHANGED <<compute_threads, async_threads, count, connKind, connAlgo, connNet,
                   connEnded, connInserted, connReply, connResult, connOut, cacheLock,
                   cacheWaiters, serverResult, worker, runnable>>
    /\ UNCHANGED <<threadVars, crackVars, callVars, chainVars, cacheVars, pipeVars>>

\* crack(): reads the hash file's header, which names `algorithm`, and then
\* the stream to its end (read_to_end returns when the client has shut down
\* its write side).
Crack(c, algorithm) ==
    /\ Serving
    /\ Running(c) /\ connPc[c] = "crack"
    /\ StreamRead(c) # "Pending"
    /\ connAlgo' = [connAlgo EXCEPT ![c] = algorithm]
    /\ IF StreamRead(c) = "UnexpectedEof"
       THEN /\ connPc' = [connPc EXCEPT ![c] = "lock_cracked"]
            /\ UNCHANGED connReply
       ELSE /\ connPc' = [connPc EXCEPT ![c] = "release"]
            /\ connReply' = [connReply EXCEPT ![c] =
                                [ok |-> FALSE, err |-> "IoError", found |-> EmptyMap]]
    /\ UNCHANGED <<compute_threads, async_threads, count, connKind, connNet,
                   connEnded, connInserted, connResult, connOut, cacheLock, cacheWaiters,
                   serverResult, worker, runnable>>
    /\ UNCHANGED <<threadVars, crackVars, callVars, chainVars, cacheVars, pipeVars>>

\* The cache operation a task runs once cache.lock().await has returned.
LockedOp == [lock_cracked |-> "get_cracked", lock_chains |-> "get_chains",
             lock_insert |-> "insert_cracked", lock_chain |-> "insert_chain"]

\* cache.lock().await: the task takes the Mutex<Cache> when it is free, and
\* is otherwise queued and suspended.
CacheLock(c) ==
    /\ Serving
    /\ Running(c) /\ connPc[c] \in DOMAIN LockedOp /\ c \notin cacheWaiters
    /\ IF cacheLock = 0
       THEN /\ cacheLock' = c
            /\ connPc' = [connPc EXCEPT ![c] = LockedOp[connPc[c]]]
            /\ UNCHANGED <<cacheWaiters, worker>>
       ELSE /\ cacheWaiters' = cacheWaiters \cup {c}
            /\ worker' = Yield(c)
            /\ UNCHANGED <<cacheLock, connPc>>
    /\ UNCHANGED <<compute_threads, async_threads, count, connKind, connAlgo, connNet,
                   connEnded, connInserted, connReply, connResult, connOut,
                   serverResult, runnable>>
    /\ UNCHANGED <<threadVars, crackVars, callVars, chainVars, cacheVars, pipeVars>>

\* The guard is dropped: the Mutex goes to a queued task, which is woken, or
\* becomes free (`waiter` 0) when none is queued.  Task c goes on at `pc`.
Unlock(c, waiter, pc) ==
    /\ cacheLock = c
    /\ IF cacheWaiters = {} THEN waiter = 0 ELSE waiter \in cacheWaiters
    /\ cacheLock' = waiter
    /\ cacheWaiters' = cacheWaiters \ {waiter}
    /\ runnable' = IF waiter = 0 THEN runnable ELSE runnable \cup {waiter}
    /\ connPc' = [d \in Clients |-> IF d = c THEN pc
                                    ELSE IF d = waiter THEN LockedOp[connPc[d]]
                                    ELSE connPc[d]]

\* crack(), under the lock: get_cracked_password for every hash of the
\* request; a non-empty result is the answer.
CrackLookup(c, waiter) ==
    /\ Serving
    /\ Running(c) /\ connPc[c] = "get_cracked"
    /\ LET cached == CachedOf(Self, connAlgo[c], RequestHashes[connAlgo[c]])
       IN  IF DOMAIN cached = {}
           THEN /\ Unlock(c, waiter, "lock_chains")
                /\ UNCHANGED connReply
           ELSE /\ Unlock(c, waiter, "release")
                /\ connReply' = [connReply EXCEPT ![c] =
                                    [ok |-> TRUE, err |-> "", found |-> cached]]
    /\ UNCHANGED <<compute_threads, async_threads, count, connKind, connAlgo, connNet,
                   connEnded, connInserted, connResult, connOut, serverResult, worker>>
    /\ UNCHANGED <<threadVars, crackVars, callVars, chainVars, cacheVars, pipeVars>>

\* crack(), under the lock: get_all_chains; then, the guard dropped,
\* crack_passwords on the chains.
CrackChains(c, waiter) ==
    /\ Serving
    /\ Running(c) /\ connPc[c] = "get_chains"
    /\ LET chains == get_all_chains(Self, connAlgo[c], CrackFile(connAlgo[c]).password_len)
           cracked == CrackResults[connAlgo[c]][chains.value]
       IN  IF ~chains.ok
           THEN /\ Unlock(c, waiter, "release")
                /\ connReply' = [connReply EXCEPT ![c] =
                                    [ok |-> FALSE, err |-> chains.err, found |-> EmptyMap]]
           ELSE IF ~cracked.ok
           THEN /\ Unlock(c, waiter, "release")
                /\ connReply' = [connReply EXCEPT ![c] = cracked]
           ELSE /\ Unlock(c, waiter, "lock_insert")
                /\ connReply' = [connReply EXCEPT ![c] = cracked]
    /\ UNCHANGED <<compute_threads, async_threads, count, connKind, connAlgo, connNet,
                   connEnded, connInserted, connResult, connOut, serverResult, worker>>
    /\ UNCHANGED <<threadVars, crackVars, callVars, chainVars, cacheVars, pipeVars>>

\* crack(), under the lock: insert_cracked_password for every password
\* found; crack() returns and the guard is dropped.
CrackStore(c, waiter) ==
    /\ Serving
    /\ Running(c) /\ connPc[c] = "insert_cracked"
    /\ LET self == InsertAll(Self, connAlgo[c], connReply[c].found,
                             DOMAIN connReply[c].found)
       IN  /\ algorithms' = self.algorithms
           /\ current_cache_size' = self.current_cache_size
    /\ Unlock(c, waiter, "release")
    /\ UNCHANGED <<compute_threads, async_threads, count, connKind, connAlgo, connNet,
                   connEnded, connInserted, connReply, connResult, connOut,
                   serverResult, worker>>
    /\ UNCHANGED <<max_cache_size, cacheCall, cacheRet>>
    /\ UNCHANGED <<threadVars, crackVars, callVars, chainVars, pipeVars>>

\* limiter.release(): decrement and notify_one; `waiter` is the thread the
\* Condvar wakes, 0 when none waits.
Release(c, waiter) ==
    /\ Serving
    /\ Running(c) /\ connPc[c] = "release"
    /\ IF \E d \in Clients : connPc[d] = "cv_wait"
       THEN waiter \in Clients /\ connPc[waiter] = "cv_wait"
       ELSE waiter = 0
    /\ count' = count_released(count)
    /\ connPc' = [d \in Clients |-> IF d = c THEN "respond"
                                    ELSE IF d = waiter THEN "cv_notified"
                                    ELSE connPc[d]]
    /\ UNCHANGED <<compute_threads, async_threads, connKind, connAlgo, connNet,
                   connEnded, connInserted, connReply, connResult, connOut, cacheLock,
                   cacheWaiters, serverResult, worker, runnable>>
    /\ UNCHANGED <<threadVars, crackVars, callVars, chainVars, cacheVars, pipeVars>>

\* The response is written and handle_client returns: crack()'s result as
\* text, or upload()'s message.  A write to a reset connection fails.
Respond(c) ==
    /\ Serving
    /\ Running(c) /\ connPc[c] = "respond"
    /\ IF connEnded[c] = "reset"
       THEN /\ Return(c, "IoError")
            /\ UNCHANGED connOut
       ELSE /\ Return(c, "Ok")
            /\ connOut' = [connOut EXCEPT ![c] = Append(@,
                              IF connKind[c] = "crack"
                              THEN crack_response(connReply[c])
                              ELSE upload_response(connInserted[c], connAlgo[c]))]
    /\ UNCHANGED <<compute_threads, async_threads, count, connKind, connAlgo, connNet,
                   connEnded, connInserted, connReply, cacheLock, cacheWaiters,
                   runnable>>
    /\ UNCHANGED <<threadVars, crackVars, callVars, chainVars, cacheVars, pipeVars>>

\* upload(): reads the table's header, which names `algorithm`, and then
\* chain after chain.  The end
\* of the stream ends the loop; any other read error is a ChainError, which
\* handle_client returns as CacheError.
Upload(c, algorithm) ==
    /\ Serving
    /\ Running(c) /\ connPc[c] = "upload"
    /\ StreamRead(c) # "Pending"
    /\ connInserted[c] > 0 => algorithm = connAlgo[c]
    /\ connAlgo' = [connAlgo EXCEPT ![c] = algorithm]
    /\ CASE StreamRead(c) = "Ok" ->
              /\ connPc' = [connPc EXCEPT ![c] = "lock_chain"]
              /\ UNCHANGED <<connResult, serverResult, worker>>
         [] StreamRead(c) = "UnexpectedEof" ->
              /\ connPc' = [connPc EXCEPT ![c] = "respond"]
              /\ UNCHANGED <<connResult, serverResult, worker>>
         [] StreamRead(c) = "ConnectionReset" -> Return(c, "CacheError")
    /\ UNCHANGED <<compute_threads, async_threads, count, connKind, connNet,
                   connEnded, connInserted, connReply, connOut, cacheLock, cacheWaiters,
                   runnable>>
    /\ UNCHANGED <<threadVars, crackVars, callVars, chainVars, cacheVars, pipeVars>>

\* upload(), under the lock: insert_chain; the guard is dropped at the end
\* of the match arm.
UploadChain(c, waiter) ==
    /\ Serving
    /\ Running(c) /\ connPc[c] = "insert_chain"
    /\ LET self == insert_chain(Self, connAlgo[c], UploadTable.password_len,
                                UploadTable.num_links,
                                UploadTable.chains[connInserted[c] + 1])
       IN  /\ algorithms' = self.algorithms
           /\ current_cache_size' = self.current_cache_size
    /\ connInserted' = [connInserted EXCEPT ![c] = @ + 1]
    /\ Unlock(c, waiter, "upload")
    /\ UNCHANGED <<compute_threads, async_threads, count, connKind, connAlgo, connNet,
                   connEnded, connReply, connResult, connOut, serverResult, worker>>
    /\ UNCHANGED <<max_cache_size, cacheCall, cacheRet>>
    /\ UNCHANGED <<threadVars, crackVars, callVars, chainVars, pipeVars>>

\* The steps of task c that its worker thread takes.
TaskStep(c) ==
    \/ Suspend(c)
    \/ \E kind \in RequestKinds : ReadRequest(c, kind)
    \/ ExtractMetadata(c)
    \/ Acquire(c)
    \/ CvWake(c)
    \/ \E algorithm \in CrackAlgorithms : Crack(c, algorithm)
    \/ CacheLock(c)
    \/ \E waiter \in Clients \cup {0} : CrackLookup(c, waiter)
    \/ \E waiter \in Clients \cup {0} : CrackChains(c, waiter)
    \/ \E waiter \in Clients \cup {0} : CrackStore(c, waiter)
    \/ \E waiter \in Clients \cup {0} : Release(c, waiter)
    \/ Respond(c)
    \/ \E algorithm \in UploadAlgorithms : Upload(c, algorithm)
    \/ \E waiter \in Clients \cup {0} : UploadChain(c, waiter)

ServerNext ==
    \/ \E c \in Clients : Accept(c)
    \/ AcceptError
    \/ \E c \in Clients : ClientSend(c)
    \/ \E c \in Clients : ClientShutdown(c)
    \/ \E c \in Clients : ClientReset(c)
    \/ \E c \in Clients : Poll(c)
    \/ \E c \in Clients : TaskStep(c)
    \/ \E c \in Clients : SpuriousWake(c)

ServerSpec == ServerInit /\ [][ServerNext]_vars

\* Clients send their whole request and shut down their write side; an idle
\* worker polls a woken task; a worker thread that can run does run.
\* Nothing obliges a client to connect, a connection to be reset or a
\* Condvar to wake a waiter it was not told to wake.
ServerFairSpec ==
    /\ ServerSpec
    /\ \A c \in Clients : WF_vars(ClientSend(c))
    /\ \A c \in Clients : WF_vars(ClientShutdown(c))
    /\ \A c \in Clients : WF_vars(Poll(c))
    /\ \A c \in Clients : WF_vars(TaskStep(c))

----------------------------------------------------------------------------
(* One run of the local cracker (core crack_passwords): the threads of the  *)
(* pool take the chains of the table, each runs the closure of its chain   *)
(* to its end and inserts into the shared map under the Mutex, one         *)
(* insertion at a time; then the main thread takes the map and writes the  *)
(* output.  The same table and hashes are also given to the server's       *)
(* crack_passwords, whose result crack() stores in the cracked cache.      *)

CrackerAlgorithms == {"md5", "sha256"}

\* The start passwords of the chains: "a", "b", "x".
CrackStarts == {<<97>>, <<98>>, <<120>>}

\* The chain records a table built with `algo` and num_links holds.
TableChains(algo, num_links) ==
    {[start |-> s, end |-> create_chain(algo, s, num_links)] : s \in CrackStarts}

\* The hashes of a hash file: of "a", of the second password of the chain
\* of "b", and of "!".
CrackHashPool(algo) ==
    {hex_encode(hash_with_algorithm(p, algo)) :
        p \in {<<97>>, ReplayWithReduce(algo, <<98>>, 1), <<33>>}}

\* A walk that puts the candidate in the map after it has advanced it.
RECURSIVE ForwardInserts_AfterReduce(_, _, _, _, _)
ForwardInserts_AfterReduce(candidate, steps, hashes_to_crack, algo, password_len) ==
    IF steps = 0 THEN <<>>
    ELSE LET hash_hex == hex_encode(hash_with_algorithm(candidate, algo))
             next == reduce(hash_hex, password_len, Charset)
         IN  (IF \E i \in DOMAIN hashes_to_crack : hashes_to_crack[i] = hash_hex
              THEN <<[hash |-> hash_hex, password |-> next]>>
              ELSE <<>>)
             \o ForwardInserts_AfterReduce(next, steps - 1, hashes_to_crack, algo,
                                           password_len)

\* The forward walk from chain.start: the entries it offers to the map, in
\* program order.
RECURSIVE ForwardInserts(_, _, _, _, _)
ForwardInserts(candidate, steps, hashes_to_crack, algo, password_len) ==
    IF steps = 0 THEN <<>>
    ELSE LET hash_hex == hex_encode(hash_with_algorithm(candidate, algo))
         IN  (IF \E i \in DOMAIN hashes_to_crack : hashes_to_crack[i] = hash_hex
              THEN <<[hash |-> hash_hex, password |-> candidate]>>
              ELSE <<>>)
             \o ForwardInserts(reduce(hash_hex, password_len, Charset), steps - 1,
                               hashes_to_crack, algo, password_len)

\* The closure of one chain: the walk, once for every i of (0..num_links).rev().
ChainInserts(chain, num_links, hashes_to_crack, algo, password_len) ==
    LET walk == ForwardInserts(chain.start, num_links, hashes_to_crack, algo,
                               password_len)
    IN  [k \in 1..(num_links * Len(walk)) |-> walk[((k - 1) % Len(walk)) + 1]]

\* A cracker that never takes the map for empty.
is_empty_never(found) == FALSE

\* result.is_empty()
is_empty(found) == DOMAIN found = {}

\* An output loop over the entries of the map.
RECURSIVE output_order_of_map(_, _)
output_order_of_map(hashes_to_crack, found) ==
    IF DOMAIN found = {} THEN <<>>
    ELSE LET h == CHOOSE k \in DOMAIN found : TRUE
         IN  <<h>> \o output_order_of_map(hashes_to_crack,
                                          [k \in DOMAIN found \ {h} |-> found[k]])

\* for hash in &hashes_to_crack
output_order(hashes_to_crack, found) == hashes_to_crack

CrackInit ==
    /\ ChainOff /\ PipeOff /\ ServerOff /\ CallOff /\ ThreadsOff
    /\ max_cache_size = DefaultCacheSize
    /\ algorithms = new_with_size(max_cache_size).algorithms
    /\ current_cache_size = new_with_size(max_cache_size).current_cache_size
    /\ cacheCall = NoCall /\ cacheRet = [ok |-> TRUE]
    /\ \E algo \in CrackerAlgorithms, n \in 0..MaxTableChains, m \in 1..MaxHashes :
        \E chains \in [1..n -> TableChains(algo, 2)],
           hashes \in [1..m -> CrackHashPool(algo)] :
          /\ \/ ckPc = "pool" /\ \E t \in 1..MaxCrackThreads :
                    ckArgs = [algorithm |-> algo, num_links |-> 2, password_len |-> 1,
                              chains |-> chains, hashes_to_crack |-> hashes,
                              threads |-> t]
             \/ ckPc = "server" /\
                    ckArgs = [algorithm |-> algo, num_links |-> 2, password_len |-> 1,
                              chains |-> chains, hashes_to_crack |-> hashes,
                              threads |-> 0]
          /\ ckTodo = [c \in 1..n |-> ChainInserts(chains[c], 2, hashes, algo, 1)]
    /\ ckActive = {}
    /\ ckFound = EmptyMap
    /\ ckFile = [created |-> FALSE, lines |-> <<>>]
    /\ ckLine = 1
    /\ ckResult = ""

\* A thread of the pool that is idle takes a chain.
PoolTake(c) ==
    /\ ckPc = "pool" /\ c \notin ckActive /\ ckTodo[c] # <<>>
    /\ Cardinality(ckActive) < ckArgs.threads
    /\ ckActive' = ckActive \cup {c}
    /\ UNCHANGED <<ckPc, ckArgs, ckTodo, ckFound, ckFile, ckLine, ckResult>>
    /\ UNCHANGED <<threadVars, chainVars, cacheVars, pipeVars, serverVars, callVars>>

\* found.lock(), map.entry(hash_hex).or_insert(candidate): the next
\* insertion of the closure of chain c; after its last one the closure ends.
PoolInsert(c) ==
    /\ ckPc = "pool" /\ c \in ckActive
    /\ ckFound' = OrInsert(ckFound, Head(ckTodo[c]).hash, Head(ckTodo[c]).password)
    /\ ckTodo' = [ckTodo EXCEPT ![c] = Tail(@)]
    /\ ckActive' = IF Tail(ckTodo[c]) = <<>> THEN ckActive \ {c} ELSE ckActive
    /\ UNCHANGED <<ckPc, ckArgs, ckFile, ckLine, ckResult>>
    /\ UNCHANGED <<threadVars, chainVars, cacheVars, pipeVars, serverVars, callVars>>

\* for_each has returned: the map is taken out of the Mutex; if it is empty
\* the cracker returns the error, else it creates the output file.
Collect ==
    /\ ckPc = "pool" /\ \A c \in DOMAIN ckTodo : ckTodo[c] = <<>>
    /\ IF is_empty(ckFound)
       THEN /\ ckResult' = "No passwords found."
            /\ ckPc' = "done"
            /\ UNCHANGED ckFile
       ELSE /\ ckFile' = [created |-> TRUE, lines |-> <<>>]
            /\ ckPc' = "emit"
            /\ UNCHANGED ckResult
    /\ UNCHANGED <<ckArgs, ckTodo, ckActive, ckFound, ckLine>>
    /\ UNCHANGED <<threadVars, chainVars, cacheVars, pipeVars, serverVars, callVars>>

\* One round of the output loop: writeln!(file, "{}\t{}", hash, pwd) if the
\* map has the hash.
Emit ==
    /\ ckPc = "emit"
    /\ LET order == output_order(ckArgs.hashes_to_crack, ckFound)
       IN  /\ ckLine <= Len(order)
           /\ ckFile' = IF order[ckLine] \in DOMAIN ckFound
                        THEN [ckFile EXCEPT !.lines =
                                 Append(@, <<order[ckLine], ckFound[order[ckLine]]>>)]
                        ELSE ckFile
    /\ ckLine' = ckLine + 1
    /\ UNCHANGED <<ckPc, ckArgs, ckTodo, ckActive, ckFound, ckResult>>
    /\ UNCHANGED <<threadVars, chainVars, cacheVars, pipeVars, serverVars, callVars>>

\* The output loop has ended: Ok(()).
EmitReturn ==
    /\ ckPc = "emit"
    /\ ckLine > Len(output_order(ckArgs.hashes_to_crack, ckFound))
    /\ ckResult' = "Ok"
    /\ ckPc' = "done"
    /\ UNCHANGED <<ckArgs, ckTodo, ckActive, ckFound, ckFile, ckLine>>
    /\ UNCHANGED <<threadVars, chainVars, cacheVars, pipeVars, serverVars, callVars>>

\* crack() of the server: crack_passwords on the chains of the table, which
\* the cache holds in one bucket.
ServerCrack ==
    /\ ckPc = "server"
    /\ LET cracked == server_crack_passwords(
                          <<[num_links |-> ckArgs.num_links, chains |-> ckArgs.chains]>>,
                          ckArgs.hashes_to_crack, ckArgs.algorithm, ckArgs.password_len)
       IN  /\ ckFound' = cracked.found
           /\ ckResult' = cracked.err
           /\ ckPc' = IF cracked.ok THEN "store" ELSE "done"
    /\ UNCHANGED <<ckArgs, ckTodo, ckActive, ckFile, ckLine>>
    /\ UNCHANGED <<threadVars, chainVars, cacheVars, pipeVars, serverVars, callVars>>

\* crack(): insert_cracked_password for every entry found, then Ok.
ServerStore ==
    /\ ckPc = "store"
    /\ LET self == InsertAll(Self, ckArgs.algorithm, ckFound, DOMAIN ckFound)
       IN  /\ algorithms' = self.algorithms
           /\ current_cache_size' = self.current_cache_size
    /\ ckResult' = "Ok"
    /\ ckPc' = "done"
    /\ UNCHANGED <<ckArgs, ckTodo, ckActive, ckFound, ckFile, ckLine>>
    /\ UNCHANGED <<max_cache_size, cacheCall, cacheRet>>
    /\ UNCHANGED <<threadVars, chainVars, pipeVars, serverVars, callVars>>

CrackNext ==
    \/ \E c \in DOMAIN ckTodo : PoolTake(c)
    \/ \E c \in DOMAIN ckTodo : PoolInsert(c)
    \/ Collect
    \/ Emit
    \/ EmitReturn
    \/ ServerCrack
    \/ ServerStore

CrackSpec == CrackInit /\ [][CrackNext]_vars

----------------------------------------------------------------------------
(* Single calls: one function of the program applied once to one input.   *)

\* The password lengths the reductions are called with: the shortest, and
\* the lengths on both sides of the first P with 95^P >= 2^128.
PasswordLengths == {1, 2, 19, 20, 21}

\* The digests the reductions are called with: those of the model's hash
\* functions, and the least and the greatest byte strings.
CallDigests ==
    {hash_with_algorithm(p, a) : p \in PasswordPool, a \in ChainAlgorithms}
        \cup {<<0, 0>>, <<255, 255, 255>>}

CallInit ==
    /\ ChainOff /\ CacheOff /\ PipeOff /\ ServerOff /\ CrackOff /\ ThreadsOff
    /\ callOp = "none" /\ callArgs = <<>> /\ callRet = <<>>

\* create_chain's call of reduction_function, in either build profile.
ReductionFunction ==
    /\ callOp = "none"
    /\ \E build \in Builds, hash \in CallDigests, round \in 0..(MaxLinks - 1),
          password_length \in PasswordLengths :
        /\ callOp' = "reduction_function"
        /\ callArgs' = [build |-> build, hash |-> hash, round |-> round,
                        password_length |-> password_length]
        /\ callRet' = reduction_function_call(build, hash, round, password_length)
    /\ UNCHANGED <<threadVars, chainVars, cacheVars, pipeVars, serverVars, crackVars>>

\* The crackers' call of reduce on the hexadecimal text of a digest.
Reduce ==
    /\ callOp = "none"
    /\ \E hash \in CallDigests, password_length \in PasswordLengths :
        /\ callOp' = "reduce"
        /\ callArgs' = [hash |-> hex_encode(hash), password_length |-> password_length]
        /\ callRet' = [panic |-> FALSE,
                       value |-> reduce(hex_encode(hash), password_length, Charset)]
    /\ UNCHANGED <<threadVars, chainVars, cacheVars, pipeVars, serverVars, crackVars>>

\* The subcommands of the command line.
Commands ==
    {"gen-passwords", "gen-hashes", "dump-hashes", "gen-rainbow-table",
     "dump-rainbow-table", "crack", "server", "client upload", "client crack"}

\* The fallible steps main takes for a subcommand, in order.
Steps(command) ==
    CASE command = "crack" -> <<"load_rainbow_table", "load_hashes", "crack_passwords">>
      [] command = "server" -> <<"runtime", "start_server">>
      [] OTHER -> <<command>>

\* What main prints before the error of a failed step.
ErrorPrefix(step) ==
    CASE step \in {"gen-passwords", "gen-hashes", "dump-hashes"} -> "Error: "
      [] step = "gen-rainbow-table" -> "Error generating rainbow table: "
      [] step = "dump-rainbow-table" -> "Error dumping rainbow table: "
      [] step = "load_rainbow_table" -> "Error loading rainbow table: "
      [] step = "load_hashes" -> "Error loading hashes: "
      [] step \in {"crack_passwords", "client crack"} -> "Error cracking passwords: "
      [] step = "runtime" -> "Failed to initialize Tokio runtime: "
      [] step = "start_server" -> "Server encountered an error: "
      [] step = "client upload" -> "Error uploading rainbow table: "

\* The arms of main that call std::process::exit(1) after eprintln!.
exits_on_error(command) ==
    command \in {"gen-passwords", "gen-hashes", "dump-hashes", "gen-rainbow-table",
                 "dump-rainbow-table"}

\* main: `failed` is the step that returns Err, 0 when every step returns Ok.
\* A main that returns ends the process with exit code 0.
main(command, failed) ==
    IF failed = 0
    THEN [stderr |-> "", exit_code |-> 0]
    ELSE [stderr |-> ErrorPrefix(Steps(command)[failed]),
          exit_code |-> IF exits_on_error(command) THEN 1 ELSE 0]

Main ==
    /\ callOp = "none"
    /\ \E command \in Commands :
        \E failed \in 0..Len(Steps(command)) :
            /\ callOp' = "main"
            /\ callArgs' = [command |-> command, failed |-> failed]
            /\ callRet' = main(command, failed)
    /\ UNCHANGED <<threadVars, chainVars, cacheVars, pipeVars, serverVars, crackVars>>

\* The password lengths of the uploaded tables: none, two short ones, the
\* first whose record length 2 * P is not a u8, and the longest.
UploadLengths == {0, 1, 2, 128, 255}

\* Two records of 2 * P bytes.
UploadRecords(P) == {[i \in 1..(2 * P) |-> 97 + ((i + k) % 26)] : k \in 0..1}

\* What may follow the last complete record: nothing, or a byte of a record
\* cut short.
UploadTails == {<<>>, <<122>>}

\* The caches an upload arrives at: a new one, and one whose md5 bucket of
\* password length 1 and 2 links holds a chain already.
UploadCaches ==
    {new_with_size(DefaultCacheSize),
     insert_chain(new_with_size(DefaultCacheSize), "md5", 1, 2,
                  [start_chain |-> <<120>>, end_chain |-> <<121>>])}

\* The upload handler on the stream of one client, which sends a table
\* header, some records and perhaps a cut one, and shuts its side down.
UploadCall ==
    /\ callOp = "none"
    /\ \E build \in Builds, algorithm \in UploadAlgorithms, P \in UploadLengths,
          n \in 0..MaxTableChains, tail \in UploadTails, self \in UploadCaches :
        \E records \in [1..n -> UploadRecords(P)] :
            LET payload == RainbowMetadata(algorithm, [i \in 1..P |-> 97], 2)
                               \o concat(records) \o tail
            IN  /\ callOp' = "upload"
                /\ callArgs' = [build |-> build, self |-> self, payload |-> payload,
                                algorithm |-> algorithm, password_len |-> P,
                                num_links |-> 2, records |-> records]
                /\ callRet' = upload(self, payload, build)
    /\ UNCHANGED <<threadVars, chainVars, cacheVars, pipeVars, serverVars, crackVars>>

\* The lengths of the table names given to client upload: on both sides of
\* what the one-byte length field holds.
NameLengths == {0, 1, 255, 256, 257}

\* The client's build_upload_message: "upload", version 1, the name's length
\* `as u8`, the name, the payload's length as a big-endian u64, the payload.
\* Every path ends in Ok(message).
build_upload_message(name, payload) ==
    [ok |-> TRUE,
     message |-> <<117, 112, 108, 111, 97, 100>> \o <<1>>
                     \o <<AsU8(Len(name))>> \o name
                     \o ToBigEndian(Len(payload), 8) \o payload]

BuildUploadMessage ==
    /\ callOp = "none"
    /\ \E n \in NameLengths, payload \in {<<>>, <<114, 97>>} :
        LET name == [i \in 1..n |-> 116]
        IN  /\ callOp' = "build_upload_message"
            /\ callArgs' = [name |-> name, payload |-> payload]
            /\ callRet' = build_upload_message(name, payload)
    /\ UNCHANGED <<threadVars, chainVars, cacheVars, pipeVars, serverVars, crackVars>>

\* The chains and hashes of the crackers' calls: chains of two links from
\* "a", "b" and "x" under md5, and the hashes of "a", of the second password
\* of the chain of "a", of "b" and of "!".
CallChains == TableChains("md5", 2)
CallHashes ==
    {hex_encode(hash_with_algorithm(p, "md5")) :
        p \in {<<97>>, ReplayWithReduce("md5", <<97>>, 1), <<98>>, <<33>>}}

\* Both crackers on one table and one list of hashes.
CrackPasswords ==
    /\ callOp = "none"
    /\ \E n \in 1..2, m \in 1..2 :
        \E chains \in [1..n -> CallChains], hashes \in [1..m -> CallHashes] :
            /\ callOp' = "crack_passwords"
            /\ callArgs' = [algorithm |-> "md5", password_len |-> 1, num_links |-> 2,
                            chains |-> chains, hashes_to_crack |-> hashes]
            /\ callRet' =
                [server |-> server_crack_passwords(
                                <<[num_links |-> 2, chains |-> chains]>>, hashes, "md5", 1),
                 local |-> crack_passwords(chains, 2, hashes, "md5", 1)]
    /\ UNCHANGED <<threadVars, chainVars, cacheVars, pipeVars, serverVars, crackVars>>

\* crack() of the server from the hashes on: the cracked cache is asked for
\* every hash and a non-empty result is returned as it is; only when it is
\* empty are the chains fetched and searched and the passwords found
\* inserted.  The result is crack()'s Result and the cache afterwards.
crack(self, algorithm, password_len, hashes) ==
    LET cached == CachedOf(self, algorithm, hashes)
        chains == get_all_chains(self, algorithm, password_len)
        cracked == server_crack_passwords(BucketsOf(chains.value, DOMAIN chains.value),
                                          hashes, algorithm, password_len)
    IN  IF DOMAIN cached # {}
        THEN [ok |-> TRUE, err |-> "", found |-> cached, self |-> self]
        ELSE IF ~chains.ok
        THEN [ok |-> FALSE, err |-> chains.err, found |-> EmptyMap, self |-> self]
        ELSE IF ~cracked.ok
        THEN [ok |-> FALSE, err |-> cracked.err, found |-> EmptyMap, self |-> self]
        ELSE [ok |-> TRUE, err |-> "", found |-> cracked.found,
              self |-> InsertAll(self, algorithm, cracked.found, DOMAIN cracked.found)]

\* The chains of an upload, inserted one by one.
RECURSIVE InsertChains(_, _, _, _, _)
InsertChains(self, algorithm, password_len, num_links, chains) ==
    IF chains = <<>> THEN self
    ELSE InsertChains(
            insert_chain(self, algorithm, password_len, num_links,
                         [start_chain |-> Head(chains).start, end_chain |-> Head(chains).end]),
            algorithm, password_len, num_links, Tail(chains))

\* The cache sizes of the servers cracked against: room for no entry, for
\* one entry of an md5 hash and a one-byte password, and the default.
CallCacheSizes == {0, 5, DefaultCacheSize}

\* A server holding an uploaded table answers a crack request, takes another
\* upload (or none) and answers a second crack request.
CrackTwice ==
    /\ callOp = "none"
    /\ \E size \in CallCacheSizes, n \in 1..2, m1 \in 1..2, m2 \in 1..2, k \in 0..1 :
        \E chains \in [1..n -> CallChains], first \in [1..m1 -> CallHashes],
           uploaded \in [1..k -> CallChains], second \in [1..m2 -> CallHashes] :
            LET self == InsertChains(new_with_size(size), "md5", 1, 2, chains)
                answer1 == crack(self, "md5", 1, first)
                between == InsertChains(answer1.self, "md5", 1, 2, uploaded)
                answer2 == crack(between, "md5", 1, second)
            IN  /\ callOp' = "crack"
                /\ callArgs' = [self |-> self, algorithm |-> "md5", password_len |-> 1,
                                first |-> first, uploaded |-> uploaded, second |-> second,
                                between |-> between]
                /\ callRet' = [first |-> answer1, second |-> answer2]
    /\ UNCHANGED <<threadVars, chainVars, cacheVars, pipeVars, serverVars, crackVars>>

CallNext ==
    \/ ReductionFunction
    \/ Reduce
    \/ Main
    \/ UploadCall
    \/ BuildUploadMessage
    \/ CrackPasswords
    \/ CrackTwice

CallSpec == CallInit /\ [][CallNext]_vars

----------------------------------------------------------------------------
(* The CrackLimiter under OS threads: each thread calls acquire() once,    *)
(* holds the permit and calls release().  The counter is read and written  *)
(* only under its Mutex, and nothing blocks while holding it except        *)
(* cvar.wait, which gives the Mutex up atomically; so each critical        *)
(* section is one step.  A Condvar may also wake a waiter spuriously.      *)

LimThreads == 1..MaxLimThreads

\* CrackLimiter::new(max) and threads that have not called yet.
LimiterInit ==
    /\ ChainOff /\ CacheOff /\ PipeOff /\ ServerOff /\ CrackOff /\ CallOff
    /\ limMax \in 1..MaxPermits
    /\ limCounter = 0
    /\ limCvar = {}
    /\ limPc = [t \in LimThreads |-> "idle"]
    /\ thPc = <<>> /\ thArgs = <<>> /\ thTodo = <<>>

\* A thread calls acquire().
LimCall(t) ==
    /\ limPc[t] = "idle"
    /\ limPc' = [limPc EXCEPT ![t] = "lock"]
    /\ UNCHANGED <<limMax, limCounter, limCvar, thPc, thArgs, thTodo>>
    /\ UNCHANGED <<chainVars, cacheVars, pipeVars, serverVars, crackVars, callVars>>

\* acquire() with the Mutex, after counter.lock() or after a return of
\* cvar.wait: `while *count >= self.max { wait }`, else `*count += 1; Ok(())`.
LimAcquire(t) ==
    /\ limPc[t] \in {"lock", "woken"}
    /\ IF limCounter >= limMax
       THEN /\ limCvar' = limCvar \cup {t}
            /\ limPc' = [limPc EXCEPT ![t] = "wait"]
            /\ UNCHANGED limCounter
       ELSE /\ limCounter' = limCounter + 1
            /\ limPc' = [limPc EXCEPT ![t] = "held"]
            /\ UNCHANGED limCvar
    /\ UNCHANGED <<limMax, thPc, thArgs, thTodo>>
    /\ UNCHANGED <<chainVars, cacheVars, pipeVars, serverVars, crackVars, callVars>>

\* cvar.notify_one(): one of the waiters, when there is one, is woken.
notify_none(cvar) == {{}}

notify_one(cvar) == IF cvar = {} THEN {{}} ELSE {{w} : w \in cvar}

\* release(): `*count -= 1; self.cvar.notify_one(); Ok(())` under the Mutex.
LimRelease(t) ==
    /\ limPc[t] = "held"
    /\ limCounter' = limCounter - 1
    /\ \E woken \in notify_one(limCvar) :
        /\ limCvar' = limCvar \ woken
        /\ limPc' = [u \in LimThreads |->
                        IF u = t THEN "done" ELSE IF u \in woken THEN "woken" ELSE limPc[u]]
    /\ UNCHANGED <<limMax, thPc, thArgs, thTodo>>
    /\ UNCHANGED <<chainVars, cacheVars, pipeVars, serverVars, crackVars, callVars>>

\* cvar.wait returns without a notification.
LimSpuriousWake(t) ==
    /\ t \in limCvar
    /\ limCvar' = limCvar \ {t}
    /\ limPc' = [limPc EXCEPT ![t] = "woken"]
    /\ UNCHANGED <<limMax, limCounter, thPc, thArgs, thTodo>>
    /\ UNCHANGED <<chainVars, cacheVars, pipeVars, serverVars, crackVars, callVars>>

LimiterNext ==
    \E t \in LimThreads : LimCall(t) \/ LimAcquire(t) \/ LimRelease(t) \/ LimSpuriousWake(t)

LimiterSpec == LimiterInit /\ [][LimiterNext]_vars

\* The OS schedules every thread that can run, and every holder releases.
\* Nothing makes a thread call acquire(), and no spurious wakeup has to come.
LimiterFairSpec ==
    /\ LimiterSpec
    /\ \A t \in LimThreads : WF_vars(LimAcquire(t)) /\ WF_vars(LimRelease(t))

----------------------------------------------------------------------------
(* One Cache shared by threads that call its inserting operations with no  *)
(* lock around the calls: Cache is Sync and the operations take &self.     *)
(* A step is one operation on a DashMap or on the atomic counter: an       *)
(* entry() call locks the shard of its key until the entry it returns is   *)
(* dropped, so the closure of or_insert_with runs inside the step.         *)
(* (The server wraps the Cache in a Mutex and allows fewer interleavings.) *)

SharedThreads == 1..MaxSharedThreads

\* The k-th chain of thread t's upload; the uploads' chains all differ.
ThreadChain(t, k) == [start_chain |-> <<96 + t>>, end_chain |-> <<96 + k>>]

\* The calls a thread may make: one insert_cracked_password, or the
\* insert_chain calls of one upload of K records of password length 1.
ThreadCalls(t) ==
    {[op |-> "insert_cracked_password", algorithm |-> a,
      password |-> [hash |-> h, password |-> pw]] :
        a \in {"md5"}, h \in HashPool, pw \in PlainPool}
    \cup
    {[op |-> "upload", algorithm |-> "md5", password_len |-> 1, num_links |-> l,
      chains |-> [k \in 1..K |-> ThreadChain(t, k)]] :
        l \in LinksPool, K \in 0..MaxUploadChains}

SharedInit ==
    /\ ChainOff /\ PipeOff /\ ServerOff /\ CrackOff /\ CallOff
    /\ max_cache_size \in 0..MaxCacheSize
    /\ algorithms = new_with_size(max_cache_size).algorithms
    /\ current_cache_size = new_with_size(max_cache_size).current_cache_size
    /\ cacheCall = NoCall /\ cacheRet = [ok |-> TRUE]
    /\ limMax = 0 /\ limCounter = 0 /\ limCvar = {} /\ limPc = <<>>
    /\ thPc = [t \in SharedThreads |-> "idle"]
    /\ thArgs = [t \in SharedThreads |-> NoCall]
    /\ thTodo = [t \in SharedThreads |-> <<>>]

\* What a step of a thread leaves alone.
ThreadStepFrame ==
    /\ UNCHANGED <<max_cache_size, cacheCall, cacheRet, limMax, limCounter, limCvar, limPc>>
    /\ UNCHANGED <<chainVars, pipeVars, serverVars, crackVars, callVars>>

\* A thread is given its calls.  An upload of no record makes no call.
ThStart(t) ==
    /\ thPc[t] = "idle"
    /\ \E call \in ThreadCalls(t) :
        /\ thArgs' = [thArgs EXCEPT ![t] = call]
        /\ thTodo' = [thTodo EXCEPT ![t] = IF call.op = "upload" THEN call.chains ELSE <<>>]
        /\ thPc' = [thPc EXCEPT ![t] =
                        IF call.op = "insert_cracked_password" THEN "check"
                        ELSE IF call.chains = <<>> THEN "done" ELSE "algorithms"]
    /\ UNCHANGED <<algorithms, current_cache_size>>
    /\ ThreadStepFrame

\* insert_cracked_password: the admission test on one load of the counter.
ThCheck(t) ==
    /\ thPc[t] = "check"
    /\ LET password == thArgs[t].password
           size_estimate == Len(password.hash) + Len(password.password)
       IN  thPc' = [thPc EXCEPT ![t] =
                        IF current_cache_size + size_estimate > max_cache_size
                        THEN "done" ELSE "algorithms"]
    /\ UNCHANGED <<algorithms, current_cache_size, thArgs, thTodo>>
    /\ ThreadStepFrame

\* Both operations: self.algorithms.entry(algorithm).or_insert_with(..).clone().
ThAlgorithmsEntry(t) ==
    /\ thPc[t] = "algorithms"
    /\ algorithms' = WithAlgorithm(algorithms, thArgs[t].algorithm)
    /\ thPc' = [thPc EXCEPT ![t] =
                    IF thArgs[t].op = "upload" THEN "password_len" ELSE "cracked_passwords"]
    /\ UNCHANGED <<current_cache_size, thArgs, thTodo>>
    /\ ThreadStepFrame

\* insert_cracked_password: cracked_passwords.entry(hash).or_insert_with(..),
\* whose closure adds size_estimate to the counter.
cracked_passwords_entry(self, algorithm, password) ==
    LET size_estimate == Len(password.hash) + Len(password.password)
        cracked == self.algorithms[algorithm].cracked_passwords
    IN  IF password.hash \in DOMAIN cracked
        THEN self
        ELSE [self EXCEPT
                !.algorithms[algorithm].cracked_passwords = Put(cracked, password.hash, password),
                !.current_cache_size = @ + size_estimate]

ThCrackedPasswordsEntry(t) ==
    /\ thPc[t] = "cracked_passwords"
    /\ LET self == cracked_passwords_entry(Self, thArgs[t].algorithm, thArgs[t].password)
       IN  /\ algorithms' = self.algorithms
           /\ current_cache_size' = self.current_cache_size
    /\ thPc' = [thPc EXCEPT ![t] = "done"]
    /\ UNCHANGED <<thArgs, thTodo>>
    /\ ThreadStepFrame

\* insert_chain: algo_cache.password_len.entry(password_len).or_insert_with(..).
\* The entry returned is kept in `rainbow_table` to the end of the function,
\* so a thread asking for the same entry waits until then.
ThPasswordLenEntry(t) ==
    /\ thPc[t] = "password_len"
    /\ \A u \in SharedThreads \ {t} :
        ~ /\ thPc[u] = "num_links"
          /\ thArgs[u].algorithm = thArgs[t].algorithm
          /\ thArgs[u].password_len = thArgs[t].password_len
    /\ LET a == thArgs[t].algorithm
           tables == algorithms[a].password_len
       IN  algorithms' =
               IF thArgs[t].password_len \in DOMAIN tables THEN algorithms
               ELSE [algorithms EXCEPT
                        ![a].password_len = Put(tables, thArgs[t].password_len, EmptyMap)]
    /\ thPc' = [thPc EXCEPT ![t] = "num_links"]
    /\ UNCHANGED <<current_cache_size, thArgs, thTodo>>
    /\ ThreadStepFrame

\* insert_chain: num_links.entry(num_links).and_modify(push).or_insert_with(vec![chain]).
num_links_entry_replacing(rainbow_table, num_links, chain) ==
    Put(rainbow_table, num_links, <<chain>>)

num_links_entry(rainbow_table, num_links, chain) ==
    IF num_links \in DOMAIN rainbow_table
    THEN Put(rainbow_table, num_links, Append(rainbow_table[num_links], chain))
    ELSE Put(rainbow_table, num_links, <<chain>>)

\* The last step of insert_chain; the upload's loop then reads its next record.
ThNumLinksEntry(t) ==
    /\ thPc[t] = "num_links"
    /\ LET a == thArgs[t].algorithm
           p == thArgs[t].password_len
       IN  algorithms' =
               [algorithms EXCEPT ![a].password_len[p] =
                   num_links_entry(@, thArgs[t].num_links, Head(thTodo[t]))]
    /\ thTodo' = [thTodo EXCEPT ![t] = Tail(@)]
    /\ thPc' = [thPc EXCEPT ![t] = IF Tail(thTodo[t]) = <<>> THEN "done" ELSE "algorithms"]
    /\ UNCHANGED <<current_cache_size, thArgs>>
    /\ ThreadStepFrame

SharedNext ==
    \E t \in SharedThreads :
        \/ ThStart(t)
        \/ ThCheck(t)
        \/ ThAlgorithmsEntry(t)
        \/ ThCrackedPasswordsEntry(t)
        \/ ThPasswordLenEntry(t)
        \/ ThNumLinksEntry(t)

SharedSpec == SharedInit /\ [][SharedNext]_vars

----------------------------------------------------------------------------
(* Claims about the chain engine.                                          *)

\* C5: chain round trip.  When the cracker (local or server) is given the
\* table built from a start password and the hash of any password of the
\* chain (the start or an intermediate link), its `found` map gives that
\* hash the plaintext it was computed from.
C5_CrackerRecoversChainPassword ==
    chPc = "cracked" =>
        /\ TargetHash(chTarget) \in DOMAIN chFound
        /\ chFound[TargetHash(chTarget)] = chTrail[chTarget]

\* C6: the builder and the crackers use the same chain step.  For the chain
\* record (chStart, chEnd) the builder writes with chLinks links, hash then
\* reduction::reduce, chLinks times from chStart, yields chEnd.
C6_ReplayWithCrackerReductionYieldsEnd ==
    chPc \in {"built", "cracked"} =>
        ReplayWithReduce(chAlgo, chStart, chLinks) = chEnd

----------------------------------------------------------------------------
(* Claims about the cache.                                                 *)

CrackedOf(algos, a) ==
    IF a \in DOMAIN algos THEN algos[a].cracked_passwords ELSE EmptyMap

\* C3: admission bound.  After any sequence of insert_cracked_password calls
\* on a Cache created with max_cache_size M, current_cache_size <= M.
C3_CountedSizeWithinMax == current_cache_size <= max_cache_size

\* An insert_cracked_password call has just been dropped for lack of room
\* while the cache holds entries.
C3_InsertDroppedWhenFull ==
    /\ cacheCall.op = "insert_cracked_password"
    /\ current_cache_size > 0
    /\ cacheCall.hash \notin DOMAIN CrackedOf(algorithms, cacheCall.algorithm)
    /\ current_cache_size + Len(cacheCall.hash) + Len(cacheCall.password) > max_cache_size

\* C4: cache monotonicity.  Once a hash h is mapped under algorithm a, no
\* step (a later insert_cracked_password of h with any password, or any other
\* operation) removes or rewrites the entry, and get_cracked_password(a, h)
\* keeps returning the password stored first.
C4_CrackedEntriesNeverChange ==
    [][\A a \in DOMAIN algorithms :
         \A h \in DOMAIN algorithms[a].cracked_passwords :
            /\ a \in DOMAIN algorithms'
            /\ h \in DOMAIN algorithms'[a].cracked_passwords
            /\ algorithms'[a].cracked_passwords[h] = algorithms[a].cracked_passwords[h]
            /\ get_cracked_password(Self, a, h).ok
            /\ get_cracked_password(Self', a, h) = get_cracked_password(Self, a, h)]_vars

\* insert_cracked_password has just been called for a hash that was already
\* mapped, with another password than the stored one, and the call passed
\* the admission check.
C4_ReinsertedWithOtherPassword ==
    /\ cacheCall.op = "insert_cracked_password"
    /\ cacheCall.hash \in DOMAIN CrackedOf(algorithms, cacheCall.algorithm)
    /\ CrackedOf(algorithms, cacheCall.algorithm)[cacheCall.hash].password
          # cacheCall.password
    /\ current_cache_size + Len(cacheCall.hash) + Len(cacheCall.password)
          <= max_cache_size

----------------------------------------------------------------------------
(* Claims about the pipelines.                                             *)

\* C7: when gen-passwords has returned it has written exactly --num
\* passwords, whatever --threads is; and when --threads exceeds --num it has
\* run --num generator threads (so one password each).
C7_GeneratorsEmitExactlyNum ==
    (plTool = "gen_passwords" /\ Returned) =>
        /\ Len(plFile) = plNum
        /\ plThreads > plNum => plWorkers = plNum

\* Everything sent to the writer so far, in the order it was sent.
SentToWriter == plFile \o printerChannel

\* C8: in gen-rainbow-table and gen-hashes the first message sent to the
\* writer, hence the first it receives and writes, is the header built from
\* the first line; no record or digest is ever ahead of it.
C8_HeaderIsFirstMessage ==
    (plTool \in ReaderTools /\ SentToWriter # <<>>) =>
        SentToWriter[1] = Metadata(plTool, plAlgo, plInput[1], plLinks)

\* Two workers at work and the writer has written the header and something
\* after it.
C8_HeaderThenRecordWritten ==
    /\ plTool \in ReaderTools /\ plThreads >= 2 /\ Len(plInput) >= 2
    /\ Len(plFile) >= 2
    /\ \E w \in 1..plWorkers : plWorkerPc[w] = "send"

\* C9: every run of a pipeline terminates: the main thread's joins return
\* and the tool's function returns.
C9_PipelineTerminates == <>(plResult \notin {"call", "run"})

\* A run with two workers and two lines has returned, the reader having
\* dropped its senders and every worker and the writer having left its loop.
C9_ReturnedAfterChannelsClosed ==
    /\ Returned /\ plTool \in ReaderTools /\ plThreads >= 2 /\ Len(plInput) >= 2
    /\ plReaderPc = "done" /\ plWriterPc = "done"
    /\ \A w \in 1..plWorkers : plWorkerPc[w] = "done"
    /\ Len(plFile) >= 3

Orderings(n) ==
    {f \in [1..n -> 1..n] : \A i, j \in 1..n : i # j => f[i] # f[j]}

C29_RecordsHaveHeaderLength ==
    (plTool = "gen_rainbow_table" /\ plAlgo \in ChainAlgorithms) =>
        \A i \in 2..Len(plFile) :
            Len(plFile[i]) = 2 * plFile[1][Len(plFile[1]) - 33]

\* C22: the table builder rejects scrypt: called with the algorithm
\* "scrypt" it never returns Ok(()) and never writes a chain record after
\* the header.
C22_BuilderRejectsScrypt ==
    (plTool = "gen_rainbow_table" /\ plAlgo = "scrypt") =>
        plResult # "Ok" /\ Len(plFile) <= 1

\* C23 as stated: a tool called with --threads 0 returns InvalidThreadCount
\* and has then spawned no worker and not created or written its output.
C23_ZeroThreadsIsInvalidThreadCount ==
    (plThreads = 0 /\ plResult # "call") =>
        /\ plResult = "InvalidThreadCount"
        /\ plWorkers = 0 /\ plWriterPc = "none" /\ plFile = <<>>

\* C23, amended: a tool called with --threads 0 returns an error and has
\* then spawned no worker and not created or written its output; the error
\* is InvalidThreadCount, except that gen-rainbow-table called with
\* num_links 0 as well returns InvalidInput, for it checks num_links first.
C23_ZeroThreadsRejectedBeforeSpawn ==
    (plThreads = 0 /\ plResult # "call") =>
        /\ plResult = IF plTool = "gen_rainbow_table" /\ plLinks = 0
                      THEN "InvalidInput" ELSE "InvalidThreadCount"
        /\ plWorkers = 0 /\ plWriterPc = "none" /\ plFile = <<>>

\* gen-hashes, called with --threads 0 on a two-line input, has returned
\* InvalidThreadCount without creating its output.
C23_ZeroThreadsRejected ==
    /\ plThreads = 0 /\ plResult = "InvalidThreadCount"
    /\ plTool = "gen_hashes" /\ Len(plInput) = 2 /\ plWriterPc = "none"

----------------------------------------------------------------------------
(* Claims about the crackers' results.                                     *)

\* C24: the local cracker writes its recovered (hash, plaintext) lines in
\* the order of the hashes of the hash file, one line for every hash of the
\* file that the map holds and none for the others, whatever the number of
\* threads and the order in which they inserted into the map.
C24_LinesInHashFileOrder ==
    (ckPc = "done" /\ ckArgs.threads > 0 /\ ckResult = "Ok") =>
        LET hs == ckArgs.hashes_to_crack
            resolved == {i \in DOMAIN hs : hs[i] \in DOMAIN ckFound}
        IN  /\ Len(ckFile.lines) = Cardinality(resolved)
            /\ \A i \in resolved :
                   ckFile.lines[Cardinality({j \in resolved : j <= i})] =
                       <<hs[i], ckFound[hs[i]]>>

\* Two threads, two chains; the first chain recovered the hash the file
\* lists second, and both lines are written.
C24_SecondHashRecoveredByFirstChain ==
    /\ ckPc = "done" /\ ckArgs.threads = 2 /\ Len(ckArgs.chains) = 2
    /\ Len(ckArgs.hashes_to_crack) = 2
    /\ ckArgs.hashes_to_crack[1] # ckArgs.hashes_to_crack[2]
    /\ ckArgs.chains[1].start = <<97>>
    /\ ckArgs.hashes_to_crack[2] =
           hex_encode(hash_with_algorithm(<<97>>, ckArgs.algorithm))
    /\ Len(ckFile.lines) = 2

\* C25: the local cracker returns "No passwords found." exactly when no
\* hash of the hash file is the hash of a password on the walk of a chain,
\* and has then not created its output; otherwise it returns Ok(()) with
\* the output written.  The server's crack_passwords returns
\* NoPasswordsFound exactly when its found map is empty.
C25_NoPasswordsFoundIffNothingRecovered ==
    ckPc = "done" =>
        IF ckArgs.threads > 0
        THEN /\ ckResult = "No passwords found." <=>
                   ~\E i \in DOMAIN ckArgs.hashes_to_crack, c \in DOMAIN ckArgs.chains,
                       k \in 0..(ckArgs.num_links - 1) :
                         ckArgs.hashes_to_crack[i] =
                             hex_encode(hash_with_algorithm(
                                 ReplayWithReduce(ckArgs.algorithm,
                                                  ckArgs.chains[c].start, k),
                                 ckArgs.algorithm))
             /\ ckResult = "No passwords found." =>
                   ~ckFile.created /\ ckFile.lines = <<>>
             /\ ckResult # "No passwords found." =>
                   ckResult = "Ok" /\ ckFile.created /\ ckFile.lines # <<>>
        ELSE ckResult = "NoPasswordsFound" <=> DOMAIN ckFound = {}

\* The local cracker, two threads and two chains, has recovered none of two
\* hashes and returned the error without an output.
C25_LocalNothingRecovered ==
    /\ ckPc = "done" /\ ckArgs.threads = 2 /\ Len(ckArgs.chains) = 2
    /\ Len(ckArgs.hashes_to_crack) = 2
    /\ ckResult = "No passwords found." /\ ~ckFile.created

\* C30: every (hash, plaintext) pair in a cracker's map, every pair the
\* local cracker writes and every pair the server stores in the cracked
\* cache satisfies hash(plaintext) = hash under the table's algorithm.
C30_ReportedPairsVerify ==
    ckPc # "off" =>
        /\ \A h \in DOMAIN ckFound :
               hex_encode(hash_with_algorithm(ckFound[h], ckArgs.algorithm)) = h
        /\ \A k \in DOMAIN ckFile.lines :
               hex_encode(hash_with_algorithm(ckFile.lines[k][2], ckArgs.algorithm)) =
                   ckFile.lines[k][1]
        /\ \A a \in DOMAIN algorithms :
               \A h \in DOMAIN algorithms[a].cracked_passwords :
                   /\ algorithms[a].cracked_passwords[h].hash = h
                   /\ hex_encode(hash_with_algorithm(
                          algorithms[a].cracked_passwords[h].password, a)) = h

\* The server has cracked two hashes, one of them the hash of the second
\* password of a chain, and stored both pairs in the cracked cache.
C30_TwoPairsStored ==
    /\ ckPc = "done" /\ ckArgs.threads = 0
    /\ Cardinality(DOMAIN ckFound) = 2
    /\ \E h \in DOMAIN ckFound : \A c \in DOMAIN ckArgs.chains :
           ckFound[h] # ckArgs.chains[c].start
    /\ ckArgs.algorithm \in DOMAIN algorithms
    /\ DOMAIN algorithms[ckArgs.algorithm].cracked_passwords = DOMAIN ckFound

----------------------------------------------------------------------------
(* Claims about the cache's operations, one call at a time.  In a step,    *)
(* cacheCall' is the call made and the unprimed variables are the cache    *)
(* it was made on.                                                         *)

\* The chains stored for (a, p, l); empty when there is no such bucket.
HasBucket(algos, a, p, l) ==
    /\ a \in DOMAIN algos
    /\ p \in DOMAIN algos[a].password_len
    /\ l \in DOMAIN algos[a].password_len[p]

Bucket(algos, a, p, l) ==
    IF HasBucket(algos, a, p, l) THEN algos[a].password_len[p][l] ELSE <<>>

IsPrefix(s, t) == Len(s) <= Len(t) /\ \A i \in 1..Len(s) : s[i] = t[i]

\* The bytes of all cracked entries: len(hash) + len(password) of each.
CrackedBytes(algos) ==
    LET Keys == {k \in (DOMAIN algos) \X HashPool :
                    k[2] \in DOMAIN algos[k[1]].cracked_passwords}
    IN  SumOver(Keys, [k \in Keys |->
            Len(algos[k[1]].cracked_passwords[k[2]].hash)
                + Len(algos[k[1]].cracked_passwords[k[2]].password)])

\* C13: insert_cracked_password(a, (h, p)) stores the entry and adds
\* len(h) + len(p) to the counted size exactly when h is absent under a and
\* the candidate fits; otherwise the whole cache is left as it was.  No other
\* entry is touched in either case.
C13_InsertCrackedStoresOrDrops ==
    [][cacheCall'.op = "insert_cracked_password" =>
        LET a == cacheCall'.algorithm
            h == cacheCall'.hash
            pw == cacheCall'.password
            size == Len(h) + Len(pw)
        IN  IF /\ h \notin DOMAIN CrackedOf(algorithms, a)
               /\ current_cache_size + size <= max_cache_size
            THEN /\ DOMAIN algorithms' = DOMAIN algorithms \cup {a}
                 /\ CrackedOf(algorithms', a) =
                        Put(CrackedOf(algorithms, a), h, [hash |-> h, password |-> pw])
                 /\ current_cache_size' = current_cache_size + size
                 /\ \A b \in DOMAIN algorithms :
                        /\ algorithms'[b].password_len = algorithms[b].password_len
                        /\ b # a => algorithms'[b] = algorithms[b]
            ELSE /\ algorithms' = algorithms
                 /\ current_cache_size' = current_cache_size
    ]_vars

\* The last call stored an entry beside an older one and filled the cache to
\* its very limit.
C13_StoredExactFit ==
    /\ cacheCall.op = "insert_cracked_password"
    /\ cacheCall.hash \in DOMAIN CrackedOf(algorithms, cacheCall.algorithm)
    /\ CrackedOf(algorithms, cacheCall.algorithm)[cacheCall.hash].password
           = cacheCall.password
    /\ current_cache_size = max_cache_size
    /\ current_cache_size > Len(cacheCall.hash) + Len(cacheCall.password)

\* C14: the counted size is the sum of len(hash) + len(password) over the
\* cracked entries of all algorithms, and a call of insert_chain,
\* get_all_chains or get_cracked_password leaves it as it was.
C14_CountedSizeIsCrackedBytes ==
    /\ [](current_cache_size = CrackedBytes(algorithms))
    /\ [][cacheCall'.op \in {"insert_chain", "get_all_chains", "get_cracked_password"}
            => current_cache_size' = current_cache_size]_vars

\* A chain was inserted into a cache that holds cracked entries under both
\* algorithms.
C14_ChainInsertedBesideCrackedEntries ==
    /\ cacheCall.op = "insert_chain"
    /\ ChainsStored(algorithms) >= 1
    /\ \A a \in CacheAlgorithms : DOMAIN CrackedOf(algorithms, a) # {}
    /\ current_cache_size >= 4

\* C15: insert_chain(a, P, L, c) puts c at the end of the (a, P, L) bucket,
\* creating what is missing, and leaves every other bucket and every cracked
\* map as it was; in every step of the cache each bucket's old content is a
\* prefix of its new content.
C15_InsertChainAppends ==
    [][/\ cacheCall'.op = "insert_chain" =>
            LET a == cacheCall'.algorithm
                p == cacheCall'.password_len
                l == cacheCall'.num_links
            IN  /\ HasBucket(algorithms', a, p, l)
                /\ Bucket(algorithms', a, p, l)
                       = Append(Bucket(algorithms, a, p, l), cacheCall'.chain)
                /\ \A b \in CacheAlgorithms, q \in LenPool, m \in LinksPool :
                       <<b, q, m>> # <<a, p, l>> =>
                           /\ HasBucket(algorithms', b, q, m) = HasBucket(algorithms, b, q, m)
                           /\ Bucket(algorithms', b, q, m) = Bucket(algorithms, b, q, m)
                /\ \A b \in CacheAlgorithms :
                       CrackedOf(algorithms', b) = CrackedOf(algorithms, b)
       /\ \A b \in CacheAlgorithms, q \in LenPool, m \in LinksPool :
            /\ HasBucket(algorithms, b, q, m) => HasBucket(algorithms', b, q, m)
            /\ IsPrefix(Bucket(algorithms, b, q, m), Bucket(algorithms', b, q, m))
    ]_vars

\* The last call appended its chain to a bucket that already held one.
C15_AppendedToNonEmptyBucket ==
    /\ cacheCall.op = "insert_chain"
    /\ LET b == Bucket(algorithms, cacheCall.algorithm, cacheCall.password_len,
                       cacheCall.num_links)
       IN  Len(b) >= 2 /\ b[Len(b)] = cacheCall.chain /\ b[1] # b[Len(b)]

\* C16: get_all_chains(a, P) fails with NoRainbowTableFound exactly when a is
\* absent, P is absent under a, or (a, P) has no bucket; otherwise it returns
\* the whole content of every bucket of (a, P); it leaves the cache as it was.
C16_GetAllChainsSnapshotOrError ==
    [][cacheCall'.op = "get_all_chains" =>
        LET a == cacheCall'.algorithm
            p == cacheCall'.password_len
            none == \/ a \notin DOMAIN algorithms
                    \/ p \notin DOMAIN algorithms[a].password_len
                    \/ \A l \in LinksPool : ~HasBucket(algorithms, a, p, l)
        IN  /\ algorithms' = algorithms
            /\ current_cache_size' = current_cache_size
            /\ cacheRet'.ok = ~none
            /\ none => cacheRet'.err = "NoRainbowTableFound"
            /\ ~none =>
                   /\ DOMAIN cacheRet'.value =
                          {l \in LinksPool : HasBucket(algorithms, a, p, l)}
                   /\ \A l \in DOMAIN cacheRet'.value :
                          cacheRet'.value[l] = Bucket(algorithms, a, p, l)
    ]_vars

\* get_all_chains failed for an algorithm that is in the cache only because
\* a cracked password was inserted for it.
C16_NoTableForCrackedOnlyAlgorithm ==
    /\ cacheCall.op = "get_all_chains"
    /\ cacheCall.algorithm \in DOMAIN algorithms
    /\ DOMAIN algorithms[cacheCall.algorithm].password_len = {}
    /\ DOMAIN algorithms[cacheCall.algorithm].cracked_passwords # {}
    /\ ~cacheRet.ok /\ cacheRet.err = "NoRainbowTableFound"

\* C17: get_cracked_password(a, h) fails with InvalidAlgorithm exactly when
\* a is absent, with PasswordNotFoundInCache exactly when a is present and h
\* is not in its cracked map, and otherwise returns the stored entry; it
\* leaves the cache as it was.
C17_GetCrackedValueOrError ==
    [][cacheCall'.op = "get_cracked_password" =>
        LET a == cacheCall'.algorithm
            h == cacheCall'.hash
        IN  /\ algorithms' = algorithms
            /\ current_cache_size' = current_cache_size
            /\ (~cacheRet'.ok /\ cacheRet'.err = "InvalidAlgorithm")
                   <=> a \notin DOMAIN algorithms
            /\ (~cacheRet'.ok /\ cacheRet'.err = "PasswordNotFoundInCache")
                   <=> (a \in DOMAIN algorithms /\ h \notin DOMAIN CrackedOf(algorithms, a))
            /\ cacheRet'.ok <=> h \in DOMAIN CrackedOf(algorithms, a)
            /\ cacheRet'.ok => cacheRet'.value = CrackedOf(algorithms, a)[h]
    ]_vars

\* get_cracked_password was asked for an algorithm that is not in the cache
\* while another algorithm is.
C17_UnknownAlgorithmAsked ==
    /\ cacheCall.op = "get_cracked_password"
    /\ cacheCall.algorithm \notin DOMAIN algorithms
    /\ DOMAIN algorithms # {}
    /\ ~cacheRet.ok /\ cacheRet.err = "InvalidAlgorithm"

----------------------------------------------------------------------------
(* Claims about the server.                                                *)

\* The tasks between the return of limiter.acquire() and limiter.release().
Holders ==
    {c \in Clients :
        connPc[c] \in {"crack", "lock_cracked", "get_cracked", "lock_chains",
                       "get_chains", "lock_insert", "insert_cracked", "release"}}

\* C1: the tasks that hold a compute permit are never more than
\* compute_threads, and the limiter's counter counts exactly them.
C1_HoldersWithinComputeThreads ==
    /\ Cardinality(Holders) <= compute_threads
    /\ count = Cardinality(Holders)

\* Every permit is taken and one more crack task is waiting for one.
C1_LimiterSaturated ==
    /\ compute_threads >= 1
    /\ Cardinality(Holders) = compute_threads
    /\ \E c \in Clients : connPc[c] = "cv_wait"

\* A crack request the server has accepted and not yet answered.
CrackPending(c) ==
    connPc[c] # "off" /\ connKind[c] = "crack" /\ connPc[c] # "done"

\* The request has its response, or the client's connection broke (the
\* request was cut short or the connection reset).
Settled(c) ==
    connPc[c] = "done" \/ (connPc[c] = "failed" /\ connResult[c] = "IoError")

\* C2: with compute_threads = 1, two crack requests in flight at the same
\* time are both eventually answered, with any number of async workers (as
\* long as the server runs).
C2_BothCrackRequestsAnswered ==
    \A a, b \in Clients :
        (a # b /\ compute_threads = 1 /\ CrackPending(a) /\ CrackPending(b))
            ~> ((Settled(a) /\ Settled(b)) \/ ~Serving)

\* A crack task waits for a permit, every permit taken.
CrackWaits ==
    count >= compute_threads /\ \E d \in Clients : connPc[d] = "cv_wait"

\* C11: uploads are not gated by the limiter: no upload task ever holds or
\* waits for a permit, and an upload request in progress while every permit
\* is taken and a crack request waits for one is read, processed and
\* answered (as long as the server runs).
C11_UploadsNotGatedByLimiter ==
    /\ [](\A c \in Clients :
            connKind[c] = "upload" =>
                c \notin Holders /\ connPc[c] \notin {"acquire", "cv_wait", "cv_notified"})
    /\ \A c \in Clients :
            (connKind[c] = "upload" /\ ~Finished(c) /\ CrackWaits)
                ~> (Finished(c) \/ ~Serving)

\* C12: no task waits for the cache's lock while a task working on another
\* algorithm holds it.
C12_NoWaitBehindAnotherAlgorithm ==
    \A c, d \in Clients :
        (c \in cacheWaiters /\ cacheLock = d) => connAlgo[c] = connAlgo[d]

\* C18: a task whose magic word is neither "crack" nor "upload" enters
\* neither handler, writes nothing, and returns InvalidMagicWord.
C18_OtherMagicWordIsInvalidMagicWord ==
    \A c \in Clients :
        connKind[c] \in {"other", "not_utf8"} =>
            /\ connPc[c] \in {"read_metadata", "failed"}
            /\ connOut[c] = <<>>
            /\ Finished(c) => connResult[c] = "InvalidMagicWord"

\* The task has returned with exactly one response written, of the form the
\* result of crack() asks for; or the write failed, the connection broken.
ClosedWithOneResponse(c) ==
    /\ Finished(c)
    /\ \/ connResult[c] = "IoError" /\ connOut[c] = <<>>
       \/ /\ connResult[c] = "Ok" /\ Len(connOut[c]) = 1
          /\ IF connReply[c].ok
             THEN /\ connOut[c][1].head = "Successfully Cracked Password"
                  /\ connOut[c][1].lines =
                        {h \o <<58, 32>> \o connReply[c].found[h] :
                            h \in DOMAIN connReply[c].found}
                  /\ DOMAIN connReply[c].found # {}
             ELSE /\ connOut[c][1].head = "Error"
                  /\ connOut[c][1].message = connReply[c].err

\* C19: every crack request that reaches the crack handler ends closed with
\* exactly one response: the Error line of crack()'s failure, or the
\* success line and one line for each recovered hash (as long as the server
\* runs).
C19_CrackEndsWithOneResponse ==
    \A c \in Clients :
        (connKind[c] = "crack" /\ connPc[c] = "crack")
            ~> (ClosedWithOneResponse(c) \/ ~Serving)

\* The chains task c's upload has inserted are in the bucket of its table.
UploadsKept ==
    \A a \in UploadAlgorithms :
        Len(Bucket(algorithms, a, UploadTable.password_len, UploadTable.num_links))
            = Cardinality({c \in Clients : connAlgo[c] = a /\ connInserted[c] > 0})

\* The passwords a crack task has stored are in the cracked map.
CrackedKept ==
    \A c \in Clients :
        (connKind[c] = "crack" /\ connReply[c].ok
            /\ connPc[c] \in {"release", "respond", "done", "failed"}) =>
        \A h \in DOMAIN connReply[c].found :
            /\ connAlgo[c] \in DOMAIN algorithms
            /\ h \in DOMAIN algorithms[connAlgo[c]].cracked_passwords
            /\ algorithms[connAlgo[c]].cracked_passwords[h].password
                   = connReply[c].found[h]

\* C20: a task's failure ends that task only: start_server goes on
\* accepting (only a failed accept ends it), and every chain and every
\* cracked password inserted, by failed tasks too, stays in the cache.
C20_FailureEndsOnlyItsTask ==
    /\ serverResult # <<>> => serverResult[1] = "accept"
    /\ UploadsKept
    /\ CrackedKept

\* An upload failed with a read error after inserting its chain, the chain is
\* in the cache, and a later connection has been accepted and waits to be
\* polled.
C20_UploadFailedChainKeptNextAccepted ==
    \E c, d \in Clients :
        /\ connPc[c] = "failed" /\ connResult[c] = "CacheError"
        /\ connInserted[c] = 1
        /\ Bucket(algorithms, connAlgo[c], UploadTable.password_len,
                  UploadTable.num_links) # <<>>
        /\ c < d /\ connPc[d] = "read_request" /\ connNet[d] = 0 /\ d \in runnable
        /\ Serving

----------------------------------------------------------------------------
(* Claims about single calls.                                              *)

\* C27: for every digest, round r and password length P in 1..255, both
\* reductions return a string of exactly P characters, each with a code in
\* 32..126, and no overflow of 95^P or digest + r changes this.
C27_ReductionsReturnPCharacters ==
    callOp \in {"reduction_function", "reduce"} =>
        /\ ~callRet.panic
        /\ Len(callRet.value) = callArgs.password_length
        /\ \A i \in 1..Len(callRet.value) : callRet.value[i] \in 32..126

\* C26: a subcommand whose operation returns an error writes it to standard
\* error and exits with code 1, and exit code 0 occurs only on success.
C26_ErrorsExitWithCodeOne ==
    callOp = "main" =>
        /\ callArgs.failed # 0 => callRet.stderr # "" /\ callRet.exit_code = 1
        /\ callRet.exit_code = 0 => callArgs.failed = 0

\* C21: the upload handler appends every complete record of the payload, in
\* payload order, to the bucket (algorithm, P, L) of the payload's header,
\* ignores a cut last record, and answers with the number K of chains it
\* inserted and the algorithm.
C21_UploadInsertsEveryCompleteRecord ==
    callOp = "upload" =>
        LET a == callArgs.algorithm
            P == callArgs.password_len
            L == callArgs.num_links
            recs == callArgs.records
            before == Bucket(callArgs.self.algorithms, a, P, L)
            after == Bucket(callRet.self.algorithms, a, P, L)
        IN  /\ callRet.outcome = "Ok"
            /\ after = before \o [k \in 1..Len(recs) |->
                                    [start_chain |-> SubSeq(recs[k], 1, P),
                                     end_chain |-> SubSeq(recs[k], P + 1, 2 * P)]]
            /\ callRet.num_inserted = Len(recs)
            /\ callRet.response = upload_response(Len(recs), a)

\* C35: for every password_len byte P in 1..255 of the header, the upload
\* handler reads records of exactly 2 * P bytes and splits each into a start
\* and an end of P bytes: computing the record size from the byte P neither
\* overflows nor wraps.
C35_RecordSizeIsTwiceP ==
    (callOp = "upload" /\ callArgs.password_len \in 1..255) =>
        LET P == callArgs.password_len
            body == Len(callArgs.payload)
                        - Len(RainbowMetadata(callArgs.algorithm, <<>>, callArgs.num_links))
            before == Bucket(callArgs.self.algorithms, callArgs.algorithm, P,
                             callArgs.num_links)
            after == Bucket(callRet.self.algorithms, callArgs.algorithm, P,
                            callArgs.num_links)
        IN  /\ callRet.outcome # "panic"
            /\ callRet.num_inserted = body \div (2 * P)
            /\ \A k \in (Len(before) + 1)..Len(after) :
                    Len(after[k].start_chain) = P /\ Len(after[k].end_chain) = P

\* C40: build_upload_message returns an error for a name of more than 255
\* bytes, and in every message it returns the name_len byte is the number of
\* name bytes that follow it.
C40_NameLengthFitsItsByte ==
    callOp = "build_upload_message" =>
        /\ Len(callArgs.name) > 255 => ~callRet.ok
        /\ callRet.ok =>
              /\ callRet.message[8] = Len(callArgs.name)
              /\ SubSeq(callRet.message, 9, 8 + callRet.message[8]) = callArgs.name

----------------------------------------------------------------------------
(* Claims about the file formats.                                          *)

\* What a reader's chains are when they are the records of the file: the
\* k-th chain is the two halves of the k-th write after the header.
ChainsAreRecords(chains) ==
    /\ Len(chains) = Len(plInput)
    /\ Len(plFile) = Len(plInput) + 1
    /\ \A k \in 1..Len(chains) : chains[k].start \o chains[k].end = plFile[k + 1]

\* C28: the file the table builder or the hash generator has written for a
\* password file, an empty one included, is read back by dump_rainbow_table,
\* load_rainbow_table and the upload handler, or by dump_hashes and
\* load_hashes, as the metadata it was built with (the algorithm, the length
\* of the first password, charset size 95, num_links, ASCII offset 32) and
\* the records written; a table without chains is read as its header alone.
C28_FormatRoundTrip ==
    plDump # <<>> =>
        LET d == plDump[1]
        IN  IF plTool = "gen_rainbow_table"
            THEN /\ d.dumped.ok
                 /\ d.dumped.algorithm = AlgorithmBytes(plAlgo)
                 /\ d.dumped.char_set_size = CharsetSize
                 /\ d.dumped.num_links = plLinks
                 /\ d.dumped.ascii_offset = AsciiOffset
                 /\ plInput # <<>> => d.dumped.password_len = Len(plInput[1])
                 /\ ChainsAreRecords(d.dumped.chains)
                 /\ d.loaded.ok
                 /\ d.loaded.algorithm = plAlgo
                 /\ d.loaded.num_links = plLinks
                 /\ d.loaded.ascii_offset = AsciiOffset
                 /\ plInput # <<>> => d.loaded.password_len = Len(plInput[1])
                 /\ ChainsAreRecords(d.loaded.chains)
                 /\ d.uploaded.outcome = "Ok"
                 /\ d.uploaded.num_inserted = Len(plInput)
                 /\ plInput # <<>> =>
                        LET bucket == Bucket(d.uploaded.self.algorithms, plAlgo,
                                             Len(plInput[1]), plLinks)
                        IN  ChainsAreRecords([k \in 1..Len(bucket) |->
                                                [start |-> bucket[k].start_chain,
                                                 end |-> bucket[k].end_chain]])
            ELSE /\ d.dumped.ok
                 /\ d.dumped.algorithm = AlgorithmBytes(plAlgo)
                 /\ plInput # <<>> => d.dumped.password_len = Len(plInput[1])
                 /\ Len(d.dumped.hashes) = Len(plInput)
                 /\ Len(plFile) = Len(plInput) + 1
                 /\ \A k \in 1..Len(plInput) : d.dumped.hashes[k] = hex_encode(plFile[k + 1])
                 /\ d.loaded.ok
                 /\ d.loaded.hashes = d.dumped.hashes

----------------------------------------------------------------------------
(* Claims about threads that share the limiter or the cache.               *)

\* C31: the CrackLimiter loses no wakeup: with max >= 1, fairly scheduled
\* threads and holders that release, every thread that has called acquire(),
\* blocked in the Condvar or not, eventually returns from it holding a permit.
C31_EveryAcquireReturns ==
    \A t \in LimThreads : (limPc[t] \in {"lock", "wait", "woken"}) ~> (limPc[t] = "held")

\* C31's case: a release() has completed and woken a blocked thread, which
\* now finds a free permit.
C31_Witness ==
    \E t, u \in LimThreads :
        limPc[t] = "done" /\ limPc[u] = "woken" /\ limCounter < limMax /\ limCvar # {}

\* C32: with threads interleaving inside insert_cracked_password on one
\* shared Cache, the counted size never exceeds max_cache_size, and the
\* counter is the size of the entries stored, each hash stored and counted
\* once however many threads inserted it.
C32_ConcurrentInsertsKeepTheLimit ==
    /\ current_cache_size <= max_cache_size
    /\ current_cache_size = CrackedBytes(algorithms)

\* The records a thread's upload has inserted so far.
Inserted(t) == Len(thArgs[t].chains) - Len(thTodo[t])

\* C34: uploads whose insert_chain calls interleave lose no chain: at every
\* moment the bucket of an upload holds that upload's inserted chains in the
\* upload's own order, and as many chains as all uploads into that bucket
\* have inserted; so K1 + K2 chains when two uploads have ended.
C34_ConcurrentUploadsLoseNoChain ==
    \A t \in SharedThreads :
        thArgs[t].op = "upload" =>
            LET bucket == Bucket(algorithms, thArgs[t].algorithm, thArgs[t].password_len,
                                 thArgs[t].num_links)
                same == {u \in SharedThreads :
                            /\ thArgs[u].op = "upload"
                            /\ thArgs[u].algorithm = thArgs[t].algorithm
                            /\ thArgs[u].password_len = thArgs[t].password_len
                            /\ thArgs[u].num_links = thArgs[t].num_links}
            IN  /\ SelectSeq(bucket, LAMBDA c : c.start_chain = <<96 + t>>)
                       = SubSeq(thArgs[t].chains, 1, Inserted(t))
                /\ Len(bucket) = SumOver(same, [u \in same |-> Inserted(u)])

\* C34's case: two uploads of two records each into one bucket have ended,
\* and their chains alternate in the bucket.
C34_InterleavedUploadsEnded ==
    /\ \A t \in SharedThreads : thPc[t] = "done" /\ thArgs[t].op = "upload"
    /\ thArgs[1].num_links = thArgs[2].num_links
    /\ Len(thArgs[1].chains) = 2 /\ Len(thArgs[2].chains) = 2
    /\ LET bucket == Bucket(algorithms, "md5", 1, thArgs[1].num_links)
       IN  /\ Len(bucket) = 4
           /\ bucket[1].start_chain # bucket[2].start_chain
           /\ bucket[2].start_chain # bucket[3].start_chain

----------------------------------------------------------------------------
(* Claims about the permits of the server's tasks.                         *)

\* The task is between its limiter.acquire() and its limiter.release().
InCrackPhase(c) == c \in Holders

\* C33: handle_client neither leaks nor over-releases a permit: after every
\* step the counter is not below 0 and is 0 when no task is in its crack
\* phase (as it is at the start); a task
\* enters the crack phase only through acquire(), which adds one, and leaves
\* it only through the release() that follows crack(), which takes one off,
\* whatever crack() returned; and a task that has left does not come back,
\* whether its response is written or the write fails.
C33_PermitsReleasedExactlyOnce ==
    [][/\ count' >= 0
       /\ Holders' = {} => count' = 0
       /\ \A c \in Clients :
            /\ (InCrackPhase(c) /\ ~InCrackPhase(c)') =>
                    /\ connPc[c] = "release" /\ connPc'[c] = "respond"
                    /\ count' = count - 1
            /\ (~InCrackPhase(c) /\ InCrackPhase(c)') =>
                    /\ connPc[c] = "acquire"
                    /\ count' = count + 1
            /\ connPc[c] \in {"respond", "done", "failed"} => ~InCrackPhase(c)'
            /\ (connPc[c] = "respond" /\ connPc'[c] # "respond") => count' = count]_vars

\* C33's case: crack() returned an error to a task whose client had reset
\* the connection; the permit is back and the write of the error has failed.
C33_ErrorAndFailedWriteReleased ==
    \E c \in Clients :
        /\ connKind[c] = "crack"
        /\ connPc[c] = "failed" /\ connResult[c] = "IoError"
        /\ connReply[c] # NoReply /\ ~connReply[c].ok
        /\ count = 0

----------------------------------------------------------------------------
(* Claims about the crackers' calls.                                       *)

\* The hashes of a list.
HashesOf(hashes) == {hashes[i] : i \in DOMAIN hashes}

\* The chain search of the server finds the hash when asked for it alone.
Recoverable(self, algorithm, password_len, h) ==
    LET chains == get_all_chains(self, algorithm, password_len)
    IN  /\ chains.ok
        /\ server_crack_passwords(BucketsOf(chains.value, DOMAIN chains.value), <<h>>,
                                  algorithm, password_len).ok

\* C37: a crack request of which some hash is in the cracked cache is
\* answered with every hash of it that is cached or that the chain search
\* recovers: the hit does not suppress the search for the other hashes.
C37_CacheHitKeepsChainSearch ==
    callOp = "crack" =>
        LET self == callArgs.between
            cached == CachedOf(self, callArgs.algorithm, callArgs.second)
        IN  DOMAIN cached # {} =>
                \A h \in HashesOf(callArgs.second) :
                    (\/ h \in DOMAIN cached
                     \/ Recoverable(self, callArgs.algorithm, callArgs.password_len, h))
                    => callRet.second.ok /\ h \in DOMAIN callRet.second.found

\* C38: on the same chains and the same hashes the server cracker and the
\* local cracker recover the same set of hashes.
C38_CrackersRecoverTheSameHashes ==
    callOp = "crack_passwords" =>
        DOMAIN callRet.server.found = DOMAIN callRet.local.found

\* C39: a hash answered with plaintext p by a crack request is answered
\* with p again by every later crack request that carries it, whether p is
\* in the cracked cache or was dropped by admission, and whatever chains
\* were uploaded in between.
C39_RepeatedCrackSameAnswer ==
    callOp = "crack" =>
        \A h \in DOMAIN callRet.first.found \cap HashesOf(callArgs.second) :
            /\ callRet.second.ok
            /\ h \in DOMAIN callRet.second.found
            /\ callRet.second.found[h] = callRet.first.found[h]

----------------------------------------------------------------------------
(* Claims about the end of the upload handler.                             *)

\* C36: on every finite payload with a complete header, whatever its
\* password_len byte (0 included) and its num_links, the chain-reading loop
\* of the upload handler ends at the end of the stream, having inserted no
\* more chains than the payload has bytes, and the handler returns its
\* response.
C36_UploadLoopEnds ==
    callOp = "upload" =>
        /\ callRet.outcome \notin {"diverges", "panic"}
        /\ callRet.num_inserted <= Len(callArgs.payload)
        /\ callRet.outcome = "Ok" =>
                callRet.response = upload_response(callRet.num_inserted, callArgs.algorithm)

=============================================================================
